---- MODULE Spec2Model ----
(***************************************************************************)
(* A model of the Repository Understanding Engine of biokit-builder:       *)
(*   - the Context Selector (selectFiles / selectWithinBudget),            *)
(*   - the repository Classifier (classifyRepository),                     *)
(*   - dependency expansion (DependencyAnalyzer.findRelatedFiles),         *)
(*   - the Recommendation Engine (recommendImprovements),                  *)
(*   - the extractors of PRD features and user flows,                      *)
(*   - the Requirements Extractor (analyzeRequirements),                   *)
(*   - the Gap Detector (detectGaps),                                      *)
(*   - the analysis pipeline (analyzeRepository),                          *)
(*   - design system detection (detectDesignSystem),                       *)
(*   - the Intent Analyzer (parseIntent),                                  *)
(*   - the generator behind the generate command (generateApplication),    *)
(*   - the enhance command (enhanceCommand).                               *)
(* Each component has its own specification; the variables of the other    *)
(* components stay at their idle values.                                   *)
(***************************************************************************)
EXTENDS Integers, Sequences, FiniteSets, TLC

VARIABLES
    \* Context Selector
    manifest,      \* FileManifest[]: the candidate files, in scan order
    options,       \* ContextSelectionOptions of the call (maxTokens, maxFiles)
    selPc,         \* "idle" | "budget" (selectWithinBudget returned) | "files" (selectFiles returned)
    prioritized,   \* the list handed to selectWithinBudget
    selected,      \* the list the call returned
    \* Classifier
    hasCode, hasDocs, codeAnalysis, clsPc, repoType,
    \* Dependency expansion
    graph,         \* DependencyGraph: path -> the set of paths it imports
    bfsCall,       \* the arguments of findRelatedFiles: targetFile, depth
    queue,         \* the work queue of {file, depth} entries
    related,       \* the Set of related paths, in insertion order
    expansions,    \* path -> how often its dependencies were expanded
    bfsPc,         \* "idle" | "loop" | "done"
    bfsResult,     \* the array returned
    \* Analysis pipeline
    repo,          \* the content of the repository at repoUrl
    clock,         \* Date.now(), in milliseconds
    tmpDirs,       \* the directories that exist under os.tmpdir()/biokit-builder
    invPc,         \* per invocation: "idle" | "created" | "cloned" | "done" | "failed"
    tempDir,       \* per invocation: its tempDir
    outcome,       \* per invocation: the RepoAnalysis returned, or the error thrown
    \* Recommendation Engine
    recInput,      \* the arguments of recommendImprovements
    recPc,         \* "idle" | "done"
    recOutput,     \* the list returned
    \* Requirements Extractor
    reqInput,      \* the documents and images globby finds in the repository
    reqPc,         \* "idle" | "done" | "failed"
    reqResult,     \* the RequirementsAnalysis returned, or the error thrown
    \* The extractors that read a document line by line
    content,       \* the lines of the document
    extPc,         \* "idle" | "features" | "flows"
    extResult,     \* what the extractor returned
    \* Gap Detector
    codeFiles,     \* the code files globby finds, with their lines
    gapPc,         \* "idle" | "done"
    detected,      \* the Gap[] returned
    \* Design system detection
    dsInput,       \* package.json and the files at the root of the repository
    dsPc,          \* "idle" | "done"
    dsResult,      \* the design system returned
    \* Intent Analyzer
    intInput,      \* the words of the request text
    intPc,         \* "idle" | "done"
    intAction,     \* the action of the parsed intent
    \* generate command
    genRepo,       \* the content of the repository at repoUrl
    genOptions,    \* the options of the command line
    genPc,         \* "idle" | "done" | "failed"
    genResult,     \* the mode, the strategy run, its project and its log
    \* enhance command
    cmdRepo,       \* the content of the repository at repoUrl
    cmdOptions,    \* the options of the command line
    cmdPc,         \* the place of the command in enhanceCommand
    cmdSelected,   \* selectedImprovements
    cmdConfirm,    \* the answer to the confirmation prompt
    cmdOutputDir,  \* whether the output directory has been created
    cmdCalls       \* the calls of generateApplication, in order

selVars == <<manifest, options, selPc, prioritized, selected>>
clsVars == <<hasCode, hasDocs, codeAnalysis, clsPc, repoType>>
bfsVars == <<graph, bfsCall, queue, related, expansions, bfsPc, bfsResult>>
anaVars == <<repo, clock, tmpDirs, invPc, tempDir, outcome>>
recVars == <<recInput, recPc, recOutput>>
reqVars == <<reqInput, reqPc, reqResult>>
extVars == <<content, extPc, extResult>>
gapVars == <<codeFiles, gapPc, detected>>
dsVars == <<dsInput, dsPc, dsResult>>
intVars == <<intInput, intPc, intAction>>
genVars == <<genRepo, genOptions, genPc, genResult>>
cmdVars == <<cmdRepo, cmdOptions, cmdPc, cmdSelected, cmdConfirm, cmdOutputDir, cmdCalls>>
cliVars == <<dsVars, intVars, genVars, cmdVars>>
vars == <<selVars, clsVars, bfsVars, anaVars, recVars, reqVars, extVars, gapVars, cliVars>>

(***************************************************************************)
(* Bounds of the model.                                                    *)
(***************************************************************************)
MaxLen == 3          \* files in a manifest
MaxFileTokens == 2   \* estimated tokens of one file
MaxBudget == 3       \* options.maxTokens
MaxComponents == 6   \* components found by analyzeCodebase
MaxPages == 1        \* pages found
MaxTests == 1        \* test files found
MaxEdges == 4        \* import edges of a dependency graph
MaxDepth == 2        \* the depth argument of findRelatedFiles
MaxClock == 2        \* milliseconds that pass while the invocations run

NoValue == "undefined"

---------------------------------------------------------------------------
(***************************************************************************)
(* Context Selector                                                        *)
(***************************************************************************)

\* What calculateRelevanceScore reads of a file, for the intent of the call:
\* whether the path contains the target path, how many keywords occur in the
\* content, whether the type is one of the intent's, whether it has relevant
\* dependencies, and the days since it was modified.
Signals ==
    { [pathHit |-> FALSE, keywordMatches |-> 0, typeHit |-> FALSE,
       relevantDeps |-> FALSE, daysSinceModified |-> 30],
      [pathHit |-> FALSE, keywordMatches |-> 2, typeHit |-> TRUE,
       relevantDeps |-> TRUE, daysSinceModified |-> 12],
      [pathHit |-> TRUE, keywordMatches |-> 6, typeHit |-> TRUE,
       relevantDeps |-> FALSE, daysSinceModified |-> 3] }

Min(a, b) == IF a <= b THEN a ELSE b
Max(a, b) == IF a >= b THEN a ELSE b

\* A FileManifest; its content is represented by its token count.
FileAt(i, tokens, sig) ==
    [path |-> i, tokens |-> tokens, signals |-> sig, truncated |-> FALSE]

\* The manifests of n files: the file at position i has path i.
Manifests(n) ==
    { [i \in 1..n |-> FileAt(i, c[i][1], c[i][2])] :
        c \in [1..n -> (0..MaxFileTokens) \X Signals] }

calculateRelevanceScore(file) ==
    LET s == file.signals IN
      (IF s.pathHit THEN 30 ELSE 0)
    + Min(25, s.keywordMatches * 5)
    + (IF s.typeHit THEN 20 ELSE 0)
    + (IF s.relevantDeps THEN 15 ELSE 0)
    + Max(0, 10 - s.daysSinceModified)

\* ScoredFile: the file with its score.
scoreFiles(files) ==
    [i \in 1..Len(files) |->
        [path |-> files[i].path, tokens |-> files[i].tokens,
         signals |-> files[i].signals, truncated |-> files[i].truncated,
         score |-> calculateRelevanceScore(files[i])]]

\* tokenizer.count(file.content)
count(file) == file.tokens

\* The place of f in a list sorted by descending score: after every element
\* that does not compare greater (Array.prototype.sort is stable).
insertUnstable(sorted, f) ==
    LET k == Cardinality({i \in 1..Len(sorted) : sorted[i].score > f.score})
    IN  SubSeq(sorted, 1, k) \o <<f>> \o SubSeq(sorted, k + 1, Len(sorted))

insertByScore(sorted, f) ==
    LET k == Cardinality({i \in 1..Len(sorted) : sorted[i].score >= f.score})
    IN  SubSeq(sorted, 1, k) \o <<f>> \o SubSeq(sorted, k + 1, Len(sorted))

\* files.sort((a, b) => b.score - a.score)
RECURSIVE sortByScore(_)
sortByScore(files) ==
    IF files = <<>> THEN <<>>
    ELSE insertByScore(sortByScore(SubSeq(files, 1, Len(files) - 1)),
                       files[Len(files)])

\* The file cut to maxTokens tokens.
truncateToTokens(file, maxTokens) ==
    [file EXCEPT !.tokens = Min(file.tokens, Max(0, maxTokens)),
                 !.truncated = TRUE]

fitsIgnoringFile(currentTokens, fileTokens, maxTokens) ==
    currentTokens <= maxTokens

\* currentTokens + fileTokens <= maxTokens
fits(currentTokens, fileTokens, maxTokens) ==
    currentTokens + fileTokens <= maxTokens

\* The for loop of selectWithinBudget, from the i-th sorted file on.
RECURSIVE budgetLoop(_, _, _, _, _)
budgetLoop(sorted, i, sel, currentTokens, maxTokens) ==
    IF i > Len(sorted) THEN sel
    ELSE LET file == sorted[i]
             fileTokens == count(file)
         IN  IF fits(currentTokens, fileTokens, maxTokens)
             THEN budgetLoop(sorted, i + 1, Append(sel, file),
                             currentTokens + fileTokens, maxTokens)
             ELSE IF Len(sel) = 0
             THEN Append(sel, truncateToTokens(file, maxTokens))   \* break
             ELSE budgetLoop(sorted, i + 1, sel, currentTokens, maxTokens)

\* The loop without its "always include at least one file" branch.
RECURSIVE budgetLoopNoFallback(_, _, _, _, _)
budgetLoopNoFallback(sorted, i, sel, currentTokens, maxTokens) ==
    IF i > Len(sorted) THEN sel
    ELSE IF fits(currentTokens, count(sorted[i]), maxTokens)
    THEN budgetLoopNoFallback(sorted, i + 1, Append(sel, sorted[i]),
                              currentTokens + count(sorted[i]), maxTokens)
    ELSE budgetLoopNoFallback(sorted, i + 1, sel, currentTokens, maxTokens)

selectWithinBudgetNoFallback(files, maxTokens) ==
    budgetLoopNoFallback(sortByScore(files), 1, <<>>, 0, maxTokens)

\* The loop with a break at the first file that does not fit.
RECURSIVE budgetLoopUntilMisfit(_, _, _, _, _)
budgetLoopUntilMisfit(sorted, i, sel, currentTokens, maxTokens) ==
    IF i > Len(sorted) THEN sel
    ELSE IF fits(currentTokens, count(sorted[i]), maxTokens)
    THEN budgetLoopUntilMisfit(sorted, i + 1, Append(sel, sorted[i]),
                               currentTokens + count(sorted[i]), maxTokens)
    ELSE IF Len(sel) = 0
    THEN Append(sel, truncateToTokens(sorted[i], maxTokens))
    ELSE sel

selectWithinBudgetUntilMisfit(files, maxTokens) ==
    budgetLoopUntilMisfit(sortByScore(files), 1, <<>>, 0, maxTokens)

selectWithinBudget(files, maxTokens) ==
    budgetLoop(sortByScore(files), 1, <<>>, 0, maxTokens)

\* The file count ceiling: the maxFiles highest-scoring files are kept.
applyPriorities(scoredFiles, opts) ==
    SubSeq(sortByScore(scoredFiles), 1, Min(opts.maxFiles, Len(scoredFiles)))

selectFilesUnprioritized(files, opts) ==
    [prioritized |-> scoreFiles(files),
     selected |-> selectWithinBudget(scoreFiles(files), opts.maxTokens)]

\* selectFiles: the list handed to selectWithinBudget and the list returned.
selectFiles(files, opts) ==
    LET scoredFiles == scoreFiles(files)
        prio == applyPriorities(scoredFiles, opts)
    IN  [prioritized |-> prio,
         selected |-> selectWithinBudget(prio, opts.maxTokens)]

NoOptions == [maxTokens |-> 0, maxFiles |-> 0]

SelectorInputs ==
    /\ manifest \in UNION { Manifests(n) : n \in 0..MaxLen }
    /\ options = NoOptions
    /\ selPc = "idle"
    /\ prioritized = <<>>
    /\ selected = <<>>

IdleSelector ==
    /\ manifest = <<>>
    /\ options = NoOptions
    /\ selPc = "idle"
    /\ prioritized = <<>>
    /\ selected = <<>>

\* selectWithinBudget(scored, maxTokens) on the scored manifest.
CallSelectWithinBudget ==
    /\ selPc = "idle"
    /\ \E maxTokens \in 0..MaxBudget :
         /\ options' = [maxTokens |-> maxTokens, maxFiles |-> Len(manifest)]
         /\ prioritized' = scoreFiles(manifest)
         /\ selected' = selectWithinBudget(scoreFiles(manifest), maxTokens)
    /\ selPc' = "budget"
    /\ UNCHANGED <<manifest, clsVars, bfsVars, anaVars, recVars, reqVars, extVars, gapVars, cliVars>>

\* selectFiles(manifest, userIntent, options)
CallSelectFiles ==
    /\ selPc = "idle"
    /\ \E maxTokens \in 0..MaxBudget, maxFiles \in 0..MaxLen :
         LET opts == [maxTokens |-> maxTokens, maxFiles |-> maxFiles]
             r == selectFiles(manifest, opts)
         IN  /\ options' = opts
             /\ prioritized' = r.prioritized
             /\ selected' = r.selected
    /\ selPc' = "files"
    /\ UNCHANGED <<manifest, clsVars, bfsVars, anaVars, recVars, reqVars, extVars, gapVars, cliVars>>

---------------------------------------------------------------------------
(***************************************************************************)
(* Classifier                                                              *)
(***************************************************************************)

RepoType == {"requirements-only", "partial-implementation", "existing-app", "hybrid"}

\* CodebaseAnalysis | null: the lengths of components, pages and tests.
Null == [null |-> TRUE]
CodebaseAnalyses ==
    [components : 0..MaxComponents, pages : 0..MaxPages, tests : 0..MaxTests]

classifyRepositoryNoDefault(code, docs, analysis) ==
    IF ~code /\ docs THEN "requirements-only"
    ELSE IF code /\ ~docs THEN "existing-app"
    ELSE IF code /\ docs THEN
        IF analysis # Null THEN
            IF analysis.components = 0 \/ analysis.pages = 0
            THEN "partial-implementation"
            ELSE IF analysis.tests > 0 /\ analysis.components > 5
            THEN "existing-app"
            ELSE "hybrid"
        ELSE "partial-implementation"
    ELSE NoValue

classifyRepositoryAtLeast5(code, docs, analysis) ==
    IF ~code /\ docs THEN "requirements-only"
    ELSE IF code /\ ~docs THEN "existing-app"
    ELSE IF code /\ docs THEN
        IF analysis # Null THEN
            IF analysis.components = 0 \/ analysis.pages = 0
            THEN "partial-implementation"
            ELSE IF analysis.tests > 0 /\ analysis.components >= 5
            THEN "existing-app"
            ELSE "hybrid"
        ELSE "partial-implementation"
    ELSE "requirements-only"

classifyRepository(code, docs, analysis) ==
    IF ~code /\ docs THEN "requirements-only"
    ELSE IF code /\ ~docs THEN "existing-app"
    ELSE IF code /\ docs THEN
        IF analysis # Null THEN
            LET hasComponents == analysis.components > 0
                hasPages == analysis.pages > 0
                hasTests == analysis.tests > 0
            IN  IF ~hasComponents \/ ~hasPages
                THEN "partial-implementation"
                ELSE IF hasTests /\ analysis.components > 5
                THEN "existing-app"
                ELSE "hybrid"
        ELSE "partial-implementation"
    ELSE "requirements-only"

ClassifierInputs ==
    /\ hasCode \in BOOLEAN
    /\ hasDocs \in BOOLEAN
    /\ codeAnalysis \in CodebaseAnalyses \cup {Null}
    /\ clsPc = "idle"
    /\ repoType = NoValue

IdleClassifier ==
    /\ hasCode = FALSE
    /\ hasDocs = FALSE
    /\ codeAnalysis = Null
    /\ clsPc = "idle"
    /\ repoType = NoValue

Classify ==
    /\ clsPc = "idle"
    /\ repoType' = classifyRepository(hasCode, hasDocs, codeAnalysis)
    /\ clsPc' = "done"
    /\ UNCHANGED <<hasCode, hasDocs, codeAnalysis, selVars, bfsVars, anaVars, recVars, reqVars, extVars, gapVars, cliVars>>

---------------------------------------------------------------------------
(***************************************************************************)
(* Dependency expansion                                                    *)
(***************************************************************************)

Paths == {"A", "B", "C", "D"}

\* depth: number = 2
DefaultDepth == 2

\* A depth no path of a graph over Paths reaches: the traversal is then
\* bounded by the visited set alone.
DeepDepth == 2 * Cardinality(Paths)

\* The graphs over Paths with at most MaxEdges import edges.
Graphs ==
    { [p \in Paths |-> {q \in Paths : <<p, q>> \in E}] :
        E \in {X \in SUBSET (Paths \X Paths) : Cardinality(X) <= MaxEdges} }

\* The orders in which a Set of paths can be iterated.
Orders(S) ==
    {o \in [1..Cardinality(S) -> S] : \A i, j \in 1..Cardinality(S) : i # j => o[i] # o[j]}

has(set, file) == \E i \in 1..Len(set) : set[i] = file

addAlways(set, file) == Append(set, file)

\* related.add(file)
add(set, file) == IF has(set, file) THEN set ELSE Append(set, file)

beyondDepthOrAt(currentDepth, depth) == currentDepth >= depth

\* currentDepth > depth
beyondDepth(currentDepth, depth) == currentDepth > depth

\* The entries pushed for the dependencies deps, iterated in order o.
RECURSIVE pushed(_, _, _, _)
pushed(o, i, rel, currentDepth) ==
    IF i > Len(o) THEN <<>>
    ELSE (IF ~has(rel, o[i]) THEN <<[file |-> o[i], depth |-> currentDepth + 1]>>
          ELSE <<>>)
         \o pushed(o, i + 1, rel, currentDepth)

NoCall == [targetFile |-> "A", depth |-> 0]

BFSInputs ==
    /\ graph \in Graphs
    /\ bfsCall = NoCall
    /\ queue = <<>>
    /\ related = <<>>
    /\ expansions = [p \in Paths |-> 0]
    /\ bfsPc = "idle"
    /\ bfsResult = <<>>

IdleBFS ==
    /\ graph = [p \in Paths |-> {}]
    /\ bfsCall = NoCall
    /\ queue = <<>>
    /\ related = <<>>
    /\ expansions = [p \in Paths |-> 0]
    /\ bfsPc = "idle"
    /\ bfsResult = <<>>

\* findRelatedFiles(targetFile, graph, depth): the set and the queue are set up.
FindRelatedFiles ==
    /\ bfsPc = "idle"
    /\ \E targetFile \in Paths, depth \in (0..MaxDepth) \cup {DefaultDepth, DeepDepth} :
         /\ bfsCall' = [targetFile |-> targetFile, depth |-> depth]
         /\ queue' = <<[file |-> targetFile, depth |-> 0]>>
    /\ related' = <<>>
    /\ bfsPc' = "loop"
    /\ UNCHANGED <<graph, expansions, bfsResult, selVars, clsVars, anaVars, recVars, reqVars, extVars, gapVars, cliVars>>

\* One iteration of the while loop on an entry beyond the depth: continue.
SkipEntry ==
    /\ bfsPc = "loop"
    /\ queue # <<>>
    /\ beyondDepth(Head(queue).depth, bfsCall.depth)
    /\ queue' = Tail(queue)
    /\ UNCHANGED <<graph, bfsCall, related, expansions, bfsPc, bfsResult, selVars, clsVars, anaVars, recVars, reqVars, extVars, gapVars, cliVars>>

\* One iteration of the while loop on an entry within the depth: the file is
\* added to the set and its dependencies not yet in the set are queued.
ExpandEntry ==
    /\ bfsPc = "loop"
    /\ queue # <<>>
    /\ ~beyondDepth(Head(queue).depth, bfsCall.depth)
    /\ LET file == Head(queue).file
           currentDepth == Head(queue).depth
           deps == graph[file]
       IN  /\ related' = add(related, file)
           /\ expansions' = [expansions EXCEPT ![file] = @ + 1]
           /\ \E o \in Orders(deps) :
                queue' = Tail(queue) \o pushed(o, 1, related', currentDepth)
    /\ UNCHANGED <<graph, bfsCall, bfsPc, bfsResult, selVars, clsVars, anaVars, recVars, reqVars, extVars, gapVars, cliVars>>

\* The queue is empty: return Array.from(related).
ReturnRelated ==
    /\ bfsPc = "loop"
    /\ queue = <<>>
    /\ bfsResult' = related
    /\ bfsPc' = "done"
    /\ UNCHANGED <<graph, bfsCall, queue, related, expansions, selVars, clsVars, anaVars, recVars, reqVars, extVars, gapVars, cliVars>>

---------------------------------------------------------------------------
(***************************************************************************)
(* Recommendation Engine                                                   *)
(***************************************************************************)

\* A property that is undefined (an optional field that is absent).
Undefined == [undefined |-> TRUE]

\* qualityAnalysis.metrics.testCoverage < 60
CoverageThreshold == 60

\* gaps.length > 10
TodoThreshold == 10

\* What recommendImprovements reads of a CodebaseAnalysis: the framework, the
\* number of components, how many of them include 'form' or 'Form', and of
\* packageJson whether scripts.env, readme and devDependencies.eslint are
\* truthy.
PackageJsons == [scriptsEnv : BOOLEAN, readme : BOOLEAN, eslint : BOOLEAN]

RecCodeAnalyses ==
    { c \in [framework : {"nextjs", "gatsby", "react"},
             components : {0, 1, 2},
             formComponents : {0, 1},
             packageJson : PackageJsons \cup {Undefined}] :
        c.formComponents <= c.components }

\* CodeQuality, as far as recommendImprovements reads it.
CodeQualities ==
    [designSystem : {"biokit", "none"},
     hasTypescript : BOOLEAN,
     hasTests : BOOLEAN,
     metrics : {Undefined, [testCoverage |-> CoverageThreshold - 1],
                [testCoverage |-> CoverageThreshold]}]

\* A Gap[] of n gaps: the first ones have the types of head, the others are
\* todo gaps.
gapList(n, head) ==
    [i \in 1..n |-> [type |-> IF i <= Len(head) THEN head[i] ELSE "todo",
                     line |-> i]]

GapLists ==
    { gapList(n, head) :
        n \in {0, 1, 2, TodoThreshold, TodoThreshold + 1},
        head \in {<<>>, <<"mock">>, <<"stub">>, <<"mock", "stub">>,
                  <<"mock", "mock">>} }

\* An entry 'key: description' of the improvements list.
improvement(k, d) == [key |-> k, description |-> d]

\* if (cond) improvements.push(imp)
pushIf(cond, imp) == IF cond THEN <<imp>> ELSE <<>>

designSystemRule(quality) ==
    pushIf(quality.designSystem # "biokit",
           improvement("migrate-to-biokit-design-system",
                       "Replace current UI components with biokit-design-system"))

typescriptRule(quality) ==
    pushIf(~quality.hasTypescript,
           improvement("add-typescript",
                       "Convert JavaScript to TypeScript for better type safety"))

testRule(quality) ==
    IF ~quality.hasTests
    THEN <<improvement("add-test-coverage", "Add unit and integration tests")>>
    ELSE pushIf(quality.metrics # Undefined
                    /\ quality.metrics.testCoverage < CoverageThreshold,
                improvement("improve-test-coverage",
                            "Increase test coverage to at least 80%"))

\* gaps.filter(g => g.type === t)
gapsOfType(gaps, t) == SelectSeq(gaps, LAMBDA g : g.type = t)

todoRule(gaps) ==
    pushIf(Len(gaps) > TodoThreshold,
           improvement("complete-todos",
                       "Address TODO comments and incomplete implementations"))

mockRule(gaps) ==
    pushIf(Len(gapsOfType(gaps, "mock")) > 0,
           improvement("replace-mock-data",
                       "Replace mock data with real API integrations"))

stubRule(gaps) ==
    pushIf(Len(gapsOfType(gaps, "stub")) > 0,
           improvement("implement-stubs",
                       "Complete stub function implementations"))

\* The gap rules with complete-todos pushed last.
gapRulesTodosLast(gaps) == mockRule(gaps) \o stubRule(gaps) \o todoRule(gaps)

\* The three checks on gaps, in the order of the code.
gapRules(gaps) == todoRule(gaps) \o mockRule(gaps) \o stubRule(gaps)

errorBoundaryRule(code) ==
    pushIf(code.components > 0,
           improvement("add-error-boundaries",
                       "Add React error boundaries for better error handling"))

\* The accessibility entry pushed only when there are components.
accessibilityRuleIfComponents(code) ==
    pushIf(code.components > 0,
           improvement("improve-accessibility", "Ensure WCAG 2.1 AA compliance"))

accessibilityRule(code) ==
    <<improvement("improve-accessibility", "Ensure WCAG 2.1 AA compliance")>>

\* The performance entry pushed under the key of the SEO entry.
performanceRuleMiskeyed(code) ==
    pushIf(code.framework = "nextjs",
           improvement("improve-seo",
                       "Add Next.js performance optimizations (Image, Font, etc.)"))

performanceRule(code) ==
    pushIf(code.framework = "nextjs",
           improvement("optimize-performance",
                       "Add Next.js performance optimizations (Image, Font, etc.)"))

envRule(code) ==
    pushIf(code.packageJson # Undefined /\ ~code.packageJson.scriptsEnv,
           improvement("extract-env-variables",
                       "Extract hardcoded values to environment variables"))

\* codeAnalysis.packageJson?.readme || false
hasReadme(code) == code.packageJson # Undefined /\ code.packageJson.readme

documentationRule(code) ==
    pushIf(~hasReadme(code),
           improvement("add-documentation", "Add README and API documentation"))

ciRule(code) ==
    <<improvement("add-ci-cd", "Set up continuous integration and deployment")>>

\* codeAnalysis.packageJson?.devDependencies?.eslint
hasEslint(code) == code.packageJson # Undefined /\ code.packageJson.eslint

lintingRule(code) ==
    pushIf(~hasEslint(code),
           improvement("add-linting", "Add ESLint and Prettier for code quality"))

seoRule(code) ==
    pushIf(code.framework = "nextjs" \/ code.framework = "gatsby",
           improvement("improve-seo", "Add SEO optimizations and meta tags"))

loadingStatesRule(code) ==
    <<improvement("add-loading-states",
                  "Add loading indicators for async operations")>>

formValidationRule(code) ==
    pushIf(code.formComponents > 0,
           improvement("add-form-validation",
                       "Add client and server-side form validation"))

\* self.indexOf(imp): the first index at which imp occurs.
indexOf(self, imp) == CHOOSE i \in 1..Len(self) :
    /\ self[i] = imp
    /\ \A j \in 1..(i - 1) : self[j] # imp

\* improvements.filter((imp, index, self) => self.indexOf(imp) === index)
firstOccurrences(self) ==
    LET keep == { i \in 1..Len(self) : indexOf(self, self[i]) = i }
        F[i \in 0..Len(self)] ==
            IF i = 0 THEN <<>>
            ELSE IF i \in keep THEN Append(F[i - 1], self[i]) ELSE F[i - 1]
    IN  F[Len(self)]

\* The pushes that follow the null check, and the final filter.
applyRules(code, quality, gaps) ==
    firstOccurrences(
        designSystemRule(quality) \o typescriptRule(quality)
            \o testRule(quality) \o gapRules(gaps)
            \o errorBoundaryRule(code) \o accessibilityRule(code)
            \o performanceRule(code) \o envRule(code)
            \o documentationRule(code) \o ciRule(code)
            \o lintingRule(code) \o seoRule(code)
            \o loadingStatesRule(code) \o formValidationRule(code))

\* The unconditional entries pushed before the null check.
recommendImprovementsBaselineFirst(code, quality, gaps) ==
    IF code = Null \/ quality = Null
    THEN accessibilityRule(code) \o ciRule(code) \o loadingStatesRule(code)
    ELSE applyRules(code, quality, gaps)

recommendImprovements(code, quality, gaps) ==
    IF code = Null \/ quality = Null
    THEN <<>>
    ELSE applyRules(code, quality, gaps)

RecommenderInputs ==
    /\ recInput \in [code : RecCodeAnalyses \cup {Null},
                     quality : CodeQualities \cup {Null},
                     gaps : GapLists]
    /\ recPc = "idle"
    /\ recOutput = <<>>

IdleRecommender ==
    /\ recInput = [code |-> Null, quality |-> Null, gaps |-> <<>>]
    /\ recPc = "idle"
    /\ recOutput = <<>>

\* recommendImprovements(codeAnalysis, qualityAnalysis, gaps)
Recommend ==
    /\ recPc = "idle"
    /\ recOutput' = recommendImprovements(recInput.code, recInput.quality,
                                          recInput.gaps)
    /\ recPc' = "done"
    /\ UNCHANGED <<recInput, selVars, clsVars, bfsVars, anaVars, reqVars, extVars, gapVars, cliVars>>

---------------------------------------------------------------------------
(***************************************************************************)
(* Line-by-line extractors                                                 *)
(***************************************************************************)

MaxLines == 4

\* content.split('\n'): the documents of at most MaxLines lines over a
\* vocabulary of lines.
Contents(vocabulary) ==
    UNION { [1..n -> vocabulary] : n \in 0..MaxLines }

\* The lines a PRD is made of here: headings of level 2 and 4, bullets with
\* either marker, indented lines and plain text.
PrdLines ==
    { "## Features", "## Non-functional requirements", "## Overview",
      "#### Features", "- Login", "* login", "- Export (must)", "  detail",
      "  - sub item", "plain text" }

\* /^#{1,3}\s*(features|functionality|requirements)/i.test(line)
isFeaturesHeading(line) == line \in {"## Features"}

\* /^#{1,3}\s/.test(line)
isSectionHeading(line) ==
    line \in { "## Features", "## Non-functional requirements", "## Overview",
               "## User Flow", "## Checkout flow", "# Journey" }

\* /features|functionality|requirements/i.test(line)
mentionsFeatures(line) ==
    line \in { "## Features", "## Non-functional requirements",
               "#### Features" }

\* line.match(/^[\-\*]\s+(.+)/): match[1].trim(), or Undefined without match.
bulletText(line) ==
    CASE line = "- Login" -> "Login"
      [] line = "* login" -> "login"
      [] line = "- Export (must)" -> "Export (must)"
      [] line = "- Story: LOGIN" -> "Story: LOGIN"
      [] line = "- Feature: Search" -> "Feature: Search"
      [] OTHER -> Undefined

\* /^[\-\*]\s+(.+)/.test(line)
isBullet(line) ==
    line \in { "- Login", "* login", "- Export (must)", "- Story: LOGIN",
               "- Feature: Search" }

\* /^\s{2,}/.test(line)
isIndented(line) == line \in {"  detail", "  - sub item"}

\* line.trim()
trim(line) ==
    CASE line = "  detail" -> "detail"
      [] line = "  - sub item" -> "- sub item"
      [] OTHER -> line

\* detectPriority(text): 'must' is a high-priority keyword; none of the other
\* texts holds a keyword of either list.
detectPriority(text) == IF text = "Export (must)" THEN "high" ELSE "medium"

\* The test that ends the features section, without its second conjunct.
endsFeaturesSectionAnyHeading(line) == isSectionHeading(line)

\* /^#{1,3}\s/.test(line) && !/features|functionality|requirements/i.test(line)
endsFeaturesSection(line) == isSectionHeading(line) /\ ~mentionsFeatures(line)

\* One iteration of the for loop of extractFeaturesFromPRD. currentFeature is
\* the feature pushed last, when there is one; its description is the list of
\* the pieces appended, each followed by a space in the string.
prdStep(st, line) ==
    IF isFeaturesHeading(line)
    THEN [st EXCEPT !.inFeaturesSection = TRUE]
    ELSE LET inSection == st.inFeaturesSection /\ ~endsFeaturesSection(line)
             n == Len(st.features)
         IN  IF ~inSection
             THEN [st EXCEPT !.inFeaturesSection = FALSE]
             ELSE IF isBullet(line)
             THEN [st EXCEPT !.features =
                      Append(@, [name |-> bulletText(line),
                                 priority |-> detectPriority(bulletText(line)),
                                 description |-> <<>>])]
             ELSE IF n > 0 /\ isIndented(line)
             THEN [st EXCEPT !.features[n].description =
                      Append(@, trim(line))]
             ELSE st

extractFeaturesFromPRD(lines) ==
    LET F[i \in 0..Len(lines)] ==
            IF i = 0
            THEN [inFeaturesSection |-> FALSE, features |-> <<>>]
            ELSE prdStep(F[i - 1], lines[i])
    IN  F[Len(lines)].features

PRDInputs ==
    /\ content \in Contents(PrdLines)
    /\ extPc = "idle"
    /\ extResult = <<>>

IdleExtractor ==
    /\ content = <<>>
    /\ extPc = "idle"
    /\ extResult = <<>>

\* extractFeaturesFromPRD(content)
ExtractFeaturesFromPRD ==
    /\ extPc = "idle"
    /\ extResult' = extractFeaturesFromPRD(content)
    /\ extPc' = "features"
    /\ UNCHANGED <<content, selVars, clsVars, bfsVars, anaVars, recVars, reqVars, gapVars, cliVars>>

\* The lines a flow document is made of here: flow headings, other headings
\* of level 2, 4 and 6, text and the empty line.
FlowLines ==
    { "## User Flow", "# Journey", "## Checkout flow", "## Overview",
      "#### Step 1", "###### Note", "step text", "" }

\* /^#{1,3}\s*(user flow|flow|journey|process)/i.test(line)
isFlowHeading(line) == line \in {"## User Flow", "# Journey"}

\* line.replace(/^#+\s*/, '')
headingText(line) ==
    CASE line = "## User Flow" -> "User Flow"
      [] line = "# Journey" -> "Journey"
      [] OTHER -> line

\* currentFlow.trim(), currentFlow being the list of its lines: the heading
\* text comes first, so only line breaks and empty lines at the end go.
RECURSIVE trimText(_)
trimText(flow) ==
    IF flow # <<>> /\ flow[Len(flow)] = ""
    THEN trimText(SubSeq(flow, 1, Len(flow) - 1))
    ELSE flow

\* if (currentFlow) flows.push(currentFlow.trim())
pushFlow(flows, currentFlow) ==
    IF currentFlow # <<>> THEN Append(flows, trimText(currentFlow)) ELSE flows

\* The test that ends a flow, on a heading of any level: /^#{1,6}\s/.
endsFlowAnyLevel(line) ==
    line \in { "## User Flow", "# Journey", "## Checkout flow", "## Overview",
               "#### Step 1", "###### Note" }

\* /^#{1,3}\s/.test(line), in the flow section
endsFlow(line) == isSectionHeading(line)

\* One iteration of the for loop of extractUserFlows.
flowStep(st, line) ==
    IF isFlowHeading(line)
    THEN [flows |-> pushFlow(st.flows, st.currentFlow),
          currentFlow |-> <<headingText(line)>>,
          inFlowSection |-> TRUE]
    ELSE IF st.inFlowSection
    THEN IF endsFlow(line)
         THEN [flows |-> pushFlow(st.flows, st.currentFlow),
               currentFlow |-> <<>>,
               inFlowSection |-> FALSE]
         ELSE [st EXCEPT !.currentFlow = Append(@, line)]
    ELSE st

extractUserFlows(lines) ==
    LET F[i \in 0..Len(lines)] ==
            IF i = 0
            THEN [flows |-> <<>>, currentFlow |-> <<>>,
                  inFlowSection |-> FALSE]
            ELSE flowStep(F[i - 1], lines[i])
    IN  pushFlow(F[Len(lines)].flows, F[Len(lines)].currentFlow)

FlowInputs ==
    /\ content \in Contents(FlowLines)
    /\ extPc = "idle"
    /\ extResult = <<>>

\* extractUserFlows(content)
ExtractUserFlows ==
    /\ extPc = "idle"
    /\ extResult' = extractUserFlows(content)
    /\ extPc' = "flows"
    /\ UNCHANGED <<content, selVars, clsVars, bfsVars, anaVars, recVars, reqVars, gapVars, cliVars>>

---------------------------------------------------------------------------
(***************************************************************************)
(* Requirements Extractor                                                  *)
(***************************************************************************)

\* str.toLowerCase(), on the file names and feature names that occur.
toLowerCase(str) ==
    CASE str \in {"Login", "LOGIN"} -> "login"
      [] str = "Export (must)" -> "export (must)"
      [] str = "Search" -> "search"
      [] str = "Story: LOGIN" -> "story: login"
      [] str = "Feature: Search" -> "feature: search"
      [] str = "PRD.md" -> "prd.md"
      [] str = "Schema.md" -> "schema.md"
      [] str = "README.md" -> "readme.md"
      [] OTHER -> str

\* path.basename(file) of the documents found.
DocFiles ==
    { "PRD.md", "user-stories.md", "technical-spec.md", "data-model.md",
      "Schema.md", "user-flow.md", "README.md" }

\* filename.includes(needle), for the needles analyzeRequirements looks for.
includes(filename, needle) ==
    needle \in
        CASE filename = "prd.md" -> {"prd"}
          [] filename = "user-stories.md" -> {"user-stor", "stories"}
          [] filename = "technical-spec.md" -> {"technical", "spec"}
          [] filename = "data-model.md" -> {"data-model"}
          [] filename = "schema.md" -> {"schema"}
          [] filename = "user-flow.md" -> {"flow"}
          [] OTHER -> {}

\* The contents a document has here: a PRD, user stories, two data model
\* documents and a flow document. In a line, ''' stands for the three
\* backquotes of a code fence.
DocContents ==
    { <<"## Features", "- Login", "* login", "- Export (must)">>,
      <<"- Story: LOGIN", "As a user, I want login so that I can enter",
        "- Feature: Search">>,
      <<"'''json", "{}", "'''", "| id | int |", "| name | text |",
        "| age | int |">>,
      <<"'''", "interface User {}", "'''", "'''json", "42", "'''">>,
      <<"## User Flow", "step text">> }

\* storyPattern and simplePattern of extractFeaturesFromUserStories, on a line.
storyMatch(line) ==
    IF line = "As a user, I want login so that I can enter"
    THEN <<[name |-> "login", priority |-> "medium",
            description |-> <<"As a user, I can enter">>]>>
    ELSE <<>>

simpleMatch(line) ==
    CASE line = "- Story: LOGIN" ->
             <<[name |-> "LOGIN", priority |-> "medium", description |-> <<>>]>>
      [] line = "- Feature: Search" ->
             <<[name |-> "Search", priority |-> "medium", description |-> <<>>]>>
      [] OTHER -> <<>>

\* The matches of pattern(line) over the lines, in order.
matches(pattern(_), lines) ==
    LET F[i \in 0..Len(lines)] ==
            IF i = 0 THEN <<>> ELSE F[i - 1] \o pattern(lines[i])
    IN  F[Len(lines)]

\* The full stories first, then the '- story: ...' items.
extractFeaturesFromUserStories(lines) ==
    matches(storyMatch, lines) \o matches(simpleMatch, lines)

\* The fence that opens a code block, with one of the languages json,
\* typescript, javascript, yaml or none, and the next fence, which closes it.
opensBlock(line) == line \in {"'''json", "'''"}

closesBlock(line) == line \in {"'''json", "'''"}

\* The models of one code block: JSON.parse(block) when it gives an object,
\* nothing when it gives another value, { raw: block } when it throws and the
\* block matches /interface|type|schema|model/i.
blockModels(block) ==
    CASE block = <<"{}">> -> <<[parsed |-> block]>>
      [] block = <<"42">> -> <<>>
      [] block = <<"interface User {}">> -> <<[raw |-> block]>>
      [] OTHER -> <<>>

\* The code blocks from line i on.
RECURSIVE codeBlockModels(_, _)
codeBlockModels(lines, i) ==
    IF i > Len(lines) THEN <<>>
    ELSE IF ~opensBlock(lines[i]) THEN codeBlockModels(lines, i + 1)
    ELSE LET closers == { j \in (i + 1)..Len(lines) : closesBlock(lines[j]) }
         IN  IF closers = {} THEN <<>>
             ELSE LET j == CHOOSE c \in closers : \A d \in closers : c <= d
                  IN  blockModels(SubSeq(lines, i + 1, j - 1))
                          \o codeBlockModels(lines, j + 1)

\* content.match(/\|(.+)\|/g): one match in each line with text between bars.
tables(lines) ==
    SelectSeq(lines, LAMBDA line :
        line \in {"| id | int |", "| name | text |", "| age | int |"})

extractDataModels(lines) ==
    codeBlockModels(lines, 1)
        \o (IF Len(tables(lines)) > 2 THEN <<[table |-> tables(lines)]>>
            ELSE <<>>)

\* A feature is known by its name as written.
featureKeyAsWritten(feature) == feature.name

\* const key = feature.name.toLowerCase()
featureKey(feature) == toLowerCase(feature.name)

deduplicateFeatures(features) ==
    LET F[i \in 0..Len(features)] ==
            IF i = 0 THEN [seen |-> {}, kept |-> <<>>]
            ELSE LET key == featureKey(features[i])
                 IN  IF key \in F[i - 1].seen THEN F[i - 1]
                     ELSE [seen |-> F[i - 1].seen \cup {key},
                           kept |-> Append(F[i - 1].kept, features[i])]
    IN  F[Len(features)].kept

\* The object literal of analyzeRequirements: of the two dataModels
\* properties the last one, [], gives the value. A property that holds an
\* array or a boolean is tagged with which it is.
newAnalysis ==
    [prd |-> FALSE, userStories |-> FALSE, technicalSpecs |-> FALSE,
     mockups |-> FALSE, dataModels |-> [array |-> <<>>],
     features |-> <<>>, userFlows |-> <<>>, thrown |-> FALSE]

\* The body of the for loop over the files; thrown is set when a statement
\* throws, and the rest of the function is then skipped.
analyzeFile(analysis, doc) ==
    LET filename == toLowerCase(doc.file)
        a1 == IF includes(filename, "prd")
                  \/ includes(filename, "product-requirement")
              THEN [analysis EXCEPT
                      !.prd = TRUE,
                      !.features = @ \o extractFeaturesFromPRD(doc.content)]
              ELSE analysis
        a2 == IF includes(filename, "user-stor") \/ includes(filename, "stories")
              THEN [a1 EXCEPT
                      !.userStories = TRUE,
                      !.features =
                          @ \o extractFeaturesFromUserStories(doc.content)]
              ELSE a1
        a3 == IF includes(filename, "technical") \/ includes(filename, "spec")
              THEN [a2 EXCEPT !.technicalSpecs = TRUE]
              ELSE a2
        \* analysis.dataModels = true; analysis.dataModels.push(...): the
        \* property holds a boolean, which has no push: a TypeError.
        a4 == IF includes(filename, "data-model") \/ includes(filename, "schema")
              THEN LET assigned == [a3 EXCEPT !.dataModels = [boolean |-> TRUE]]
                   IN  IF "array" \in DOMAIN assigned.dataModels
                       THEN [assigned EXCEPT
                               !.dataModels.array =
                                   @ \o extractDataModels(doc.content)]
                       ELSE [assigned EXCEPT !.thrown = TRUE]
              ELSE a3
        a5 == IF includes(filename, "flow") \/ includes(filename, "journey")
              THEN [a4 EXCEPT !.userFlows = @ \o extractUserFlows(doc.content)]
              ELSE a4
    IN  IF analysis.thrown THEN analysis
        ELSE IF a4.thrown THEN a4 ELSE a5

\* analyzeRequirements(repoPath) on the documents and images found: the
\* RequirementsAnalysis returned, or the error thrown.
analyzeRequirements(files, images) ==
    LET F[i \in 0..Len(files)] ==
            IF i = 0 THEN newAnalysis ELSE analyzeFile(F[i - 1], files[i])
        scanned == F[Len(files)]
    IN  IF scanned.thrown
        THEN [error |-> "TypeError: analysis.dataModels.push is not a function"]
        ELSE [prd |-> scanned.prd, userStories |-> scanned.userStories,
              technicalSpecs |-> scanned.technicalSpecs,
              mockups |-> images > 0,
              dataModels |-> scanned.dataModels,
              features |-> deduplicateFeatures(scanned.features),
              userFlows |-> scanned.userFlows]

MaxDocs == 2

RequirementsInputs ==
    /\ reqInput \in
           [files : UNION { [1..n -> [file : DocFiles, content : DocContents]] :
                              n \in 0..MaxDocs },
            images : {0, 1}]
    /\ reqPc = "idle"
    /\ reqResult = Undefined

IdleRequirements ==
    /\ reqInput = [files |-> <<>>, images |-> 0]
    /\ reqPc = "idle"
    /\ reqResult = Undefined

\* analyzeRequirements(repoPath)
AnalyzeRequirements ==
    /\ reqPc = "idle"
    /\ reqResult' = analyzeRequirements(reqInput.files, reqInput.images)
    /\ reqPc' = IF "error" \in DOMAIN reqResult' THEN "failed" ELSE "done"
    /\ UNCHANGED <<reqInput, selVars, clsVars, bfsVars, anaVars, recVars, extVars, gapVars, cliVars>>

---------------------------------------------------------------------------
(***************************************************************************)
(* Gap Detector                                                            *)
(***************************************************************************)

MaxWords == 3        \* words in a request
MaxGapLines == 3

\* lines.length < 10
ShortFileLines == 10

\* The lines a code file starts with here, and the line it is padded with.
GapLines ==
    { "// TODO: wire api", "// FIXME: handle null case",
      "// fixme: lower case", "// TODO", "function f() {}",
      "function g() { return null; }", "const mockTest = [", "Lorem ipsum",
      "} catch (e) {}", "const x = 1;", "" }

\* The code files: a path, and up to MaxGapLines lines, which stand alone,
\* are followed by the padding that brings a file of MaxGapLines lines to
\* ShortFileLines, or come after eleven lines of padding.
CodeFiles ==
    { [path |-> f,
       lines |-> [i \in 1..pad[1] |-> "const x = 1;"] \o head
                     \o [i \in 1..pad[2] |-> "const x = 1;"]] :
        f \in {"app.ts", "index.ts", "reindex.ts"},
        head \in UNION { [1..n -> GapLines] : n \in 0..MaxGapLines },
        pad \in {<<0, 0>>, <<0, ShortFileLines - MaxGapLines>>, <<11, 0>>} }

\* line.match(todoPattern): match[1] and match[2].trim(), or no match.
todoMatch(line) ==
    CASE line = "// TODO: wire api" -> <<"TODO", "wire api">>
      [] line = "// FIXME: handle null case" -> <<"FIXME", "handle null case">>
      [] line = "// fixme: lower case" -> <<"fixme", "lower case">>
      [] OTHER -> <<>>

\* str.toUpperCase(), on the markers that occur.
toUpperCase(str) == IF str = "fixme" THEN "FIXME" ELSE str

\* The marker compared as it is written.
isFixmeAsWritten(marker) == marker = "FIXME"

\* match[1].toUpperCase() === 'FIXME'
isFixme(marker) == toUpperCase(marker) = "FIXME"

\* The patterns of each list that line matches, by their place in the list.
stubPatterns(line) ==
    CASE line = "function f() {}" -> <<1>>
      [] line = "function g() { return null; }" -> <<4>>
      [] OTHER -> <<>>

mockPatterns(line) ==
    IF line = "const mockTest = [" THEN <<1, 4>> ELSE <<>>

placeholderPatterns(line) ==
    IF line = "Lorem ipsum" THEN <<1>> ELSE <<>>

incompletePatterns(line) ==
    IF line = "} catch (e) {}" THEN <<6>> ELSE <<>>

\* The description of the incompletePatterns entry at place p.
incompleteDescription(p) ==
    << "Ellipsis comment indicating more code needed",
       "Not yet implemented error",
       "Alert indicating missing implementation", "Console log with TODO",
       "Empty promise resolution", "Empty catch block" >>[p]

\* f(1, lines[1]) \o ... \o f(n, lines[n]): what lines.forEach collects.
forEachLine(lines, f(_, _)) ==
    LET F[i \in 0..Len(lines)] ==
            IF i = 0 THEN <<>> ELSE F[i - 1] \o f(i, lines[i])
    IN  F[Len(lines)]

findTODOs(file, lines) ==
    forEachLine(lines, LAMBDA i, line :
        IF todoMatch(line) = <<>> THEN <<>>
        ELSE <<[type |-> "todo", file |-> file, line |-> i,
                description |-> todoMatch(line)[2],
                priority |-> IF isFixme(todoMatch(line)[1]) THEN "high"
                             ELSE "medium"]>>)

\* pattern.test(codeBlock), codeBlock being lines.join('\n'): the patterns at
\* places 4 and 5 end with $, which without the m flag is the end of the whole
\* block, so they match only on the last line that is not blank; the others
\* match the block when they match one of its lines.
testCodeBlock(p, lines) ==
    IF p \in {4, 5}
    THEN \E i \in 1..Len(lines) :
             /\ p \in {stubPatterns(lines[i])[k] :
                         k \in 1..Len(stubPatterns(lines[i]))}
             /\ \A j \in (i + 1)..Len(lines) : lines[j] = ""
    ELSE \E i \in 1..Len(lines) :
             p \in {stubPatterns(lines[i])[k] :
                      k \in 1..Len(stubPatterns(lines[i]))}

\* The gaps of one pattern of the list ps in each line that matches it.
gapsOfPattern(p, ps(_), lines, gap(_, _)) ==
    forEachLine(lines, LAMBDA i, line :
        IF \E k \in 1..Len(ps(line)) : ps(line)[k] = p
        THEN <<gap(i, p)>> ELSE <<>>)

\* Pattern by pattern: the lines are searched only when the pattern matches
\* the whole block.
findStubFunctions(file, lines) ==
    LET gap(i, p) == [type |-> "stub", file |-> file, line |-> i,
                      description |-> "Empty or stub function implementation",
                      priority |-> "high"]
        F[p \in 0..6] ==
            IF p = 0 THEN <<>>
            ELSE IF testCodeBlock(p, lines)
                 THEN F[p - 1] \o gapsOfPattern(p, stubPatterns, lines, gap)
                 ELSE F[p - 1]
    IN  F[6]

\* Line by line, and for each line pattern by pattern.
gapsOfLines(ps(_), lines, gap(_, _)) ==
    forEachLine(lines, LAMBDA i, line :
        [k \in 1..Len(ps(line)) |-> gap(i, ps(line)[k])])

findMockData(file, lines) ==
    gapsOfLines(mockPatterns, lines, LAMBDA i, p :
        [type |-> "mock", file |-> file, line |-> i,
         description |-> "Mock or hardcoded data detected",
         priority |-> "medium"])

findPlaceholders(file, lines) ==
    gapsOfLines(placeholderPatterns, lines, LAMBDA i, p :
        [type |-> "placeholder", file |-> file, line |-> i,
         description |-> "Placeholder content detected", priority |-> "low"])

\* file.includes('index')
includesIndex(file) == file \in {"index.ts", "reindex.ts"}

findIncompleteImplementations(file, lines) ==
    gapsOfLines(incompletePatterns, lines, LAMBDA i, p :
        [type |-> "incomplete", file |-> file, line |-> i,
         description |-> incompleteDescription(p), priority |-> "high"])
    \o (IF Len(lines) < ShortFileLines /\ ~includesIndex(file)
        THEN <<[type |-> "incomplete", file |-> file,
                description |-> "File seems incomplete (very short)",
                priority |-> "medium"]>>
        ELSE <<>>)

detectGaps(files) ==
    LET ofFile(f) ==
            findTODOs(f.path, f.lines) \o findStubFunctions(f.path, f.lines)
                \o findMockData(f.path, f.lines)
                \o findPlaceholders(f.path, f.lines)
                \o findIncompleteImplementations(f.path, f.lines)
        F[i \in 0..Len(files)] ==
            IF i = 0 THEN <<>> ELSE F[i - 1] \o ofFile(files[i])
    IN  F[Len(files)]

\* The repository has no code file, one, or that one before util.ts.
GapsInputs ==
    /\ codeFiles \in
           {<<>>} \cup {<<f>> : f \in CodeFiles}
               \cup { <<f, [path |-> "util.ts",
                            lines |-> <<"function g() { return null; }">>]>> :
                        f \in { c \in CodeFiles :
                                   /\ c.path = "app.ts"
                                   /\ Len(c.lines) <= MaxGapLines } }
    /\ gapPc = "idle"
    /\ detected = <<>>

IdleGaps ==
    /\ codeFiles = <<>>
    /\ gapPc = "idle"
    /\ detected = <<>>

\* detectGaps(repoPath)
DetectGaps ==
    /\ gapPc = "idle"
    /\ detected' = detectGaps(codeFiles)
    /\ gapPc' = "done"
    /\ UNCHANGED <<codeFiles, selVars, clsVars, bfsVars, anaVars, recVars, reqVars, extVars, cliVars>>

---------------------------------------------------------------------------
(***************************************************************************)
(* Analysis pipeline                                                       *)
(***************************************************************************)

Invocations == {1, 2}

\* codeQuality: qualityAnalysis || { ... }
DefaultCodeQuality ==
    [hasTests |-> FALSE, hasTypescript |-> FALSE, designSystem |-> "none",
     framework |-> "unknown", packageManager |-> "npm"]

\* requirements: requirementsAnalysis || { ... }
DefaultRequirements ==
    [prd |-> FALSE, userStories |-> FALSE, technicalSpecs |-> FALSE,
     mockups |-> FALSE, dataModels |-> FALSE]

\* What analyzeCodebase, analyzeQuality, detectGaps and analyzeRequirements
\* find in a repository that has code, or documents.
RepoCodes ==
    [components : {0, 1, MaxComponents}, pages : 0..MaxPages,
     tests : 0..MaxTests, framework : {"nextjs"}, formComponents : {0},
     packageJson : {Undefined,
                   [scriptsEnv |-> FALSE, readme |-> FALSE, eslint |-> FALSE]}]

RepoQualities ==
    { [hasTests |-> t, hasTypescript |-> t,
       designSystem |-> IF t THEN "biokit" ELSE "none", metrics |-> Undefined,
       framework |-> "nextjs", packageManager |-> "npm"] : t \in BOOLEAN }

RepoGaps == {<<>>, gapList(1, <<"mock">>)}

RepoRequirements ==
    { [prd |-> d, userStories |-> FALSE, technicalSpecs |-> FALSE,
       mockups |-> FALSE, dataModels |-> FALSE,
       features |-> IF d THEN <<[name |-> "Login", priority |-> "medium"]>>
                    ELSE <<>>,
       userFlows |-> <<>>] : d \in BOOLEAN }

\* The fields of a repository that is not read: no analyzer runs on it.
NotAnalysed == [notAnalysed |-> TRUE]

\* A repository: whether detectCode and detectDocumentation find files, and
\* what the analyzers find in it.
Repos ==
    { r \in [hasCode : BOOLEAN, hasDocs : BOOLEAN,
             code : RepoCodes \cup {NotAnalysed},
             quality : RepoQualities \cup {NotAnalysed},
             gaps : RepoGaps,
             requirements : RepoRequirements \cup {NotAnalysed}] :
        /\ r.hasCode => r.code # NotAnalysed /\ r.quality # NotAnalysed
        /\ ~r.hasCode => /\ r.code = NotAnalysed
                         /\ r.quality = NotAnalysed
                         /\ r.gaps = <<>>
        /\ r.hasDocs <=> r.requirements # NotAnalysed }

EmptyRepo ==
    [hasCode |-> FALSE, hasDocs |-> FALSE, code |-> NotAnalysed,
     quality |-> NotAnalysed, gaps |-> <<>>, requirements |-> NotAnalysed]

\* path.join(os.tmpdir(), 'biokit-builder', Date.now().toString()): the
\* directory is named by the millisecond of the call.
tempDirAt(now) == <<"tmp", "biokit-builder", now>>

\* path.basename(repoPath)
basename(dir) == dir[Len(dir)]

\* The code analysis run only when the repository holds no documentation.
codeAnalysisOfCodeOnly(r) ==
    IF r.hasCode /\ ~r.hasDocs THEN r.code ELSE Null

\* hasCode ? await analyzeCodebase(tempDir) : null
codeAnalysisOf(r) == IF r.hasCode THEN r.code ELSE Null

\* The value analyzeRepository returns for the repository r cloned into dir.
repoAnalysis(r, dir) ==
    LET code == codeAnalysisOf(r)
        requirementsAnalysis == IF r.hasDocs THEN r.requirements ELSE Null
        qualityAnalysis == IF r.hasCode THEN r.quality ELSE Null
        gaps == IF r.hasCode THEN r.gaps ELSE <<>>
    IN  [type |-> classifyRepository(r.hasCode, r.hasDocs, code),
         localPath |-> dir,
         hasCode |-> r.hasCode,
         hasRequirements |-> r.hasDocs,
         codeQuality |-> IF qualityAnalysis # Null THEN qualityAnalysis
                         ELSE DefaultCodeQuality,
         requirements |-> IF requirementsAnalysis # Null
                          THEN requirementsAnalysis
                          ELSE DefaultRequirements,
         improvements |-> recommendImprovements(code, qualityAnalysis, gaps),
         extractedFeatures |-> IF requirementsAnalysis # Null
                               THEN requirementsAnalysis.features
                               ELSE Undefined,
         fileTree |-> <<basename(dir)>>]

AnalysisInputs ==
    /\ repo \in Repos
    /\ clock = 0
    /\ tmpDirs = {}
    /\ invPc = [i \in Invocations |-> "idle"]
    /\ tempDir = [i \in Invocations |-> <<>>]
    /\ outcome = [i \in Invocations |-> NoValue]

IdleAnalysis ==
    /\ repo = EmptyRepo
    /\ clock = 0
    /\ tmpDirs = {}
    /\ invPc = [i \in Invocations |-> "idle"]
    /\ tempDir = [i \in Invocations |-> <<>>]
    /\ outcome = [i \in Invocations |-> NoValue]

\* Time passes.
Tick ==
    /\ clock < MaxClock
    /\ clock' = clock + 1
    /\ UNCHANGED <<repo, tmpDirs, invPc, tempDir, outcome, selVars, clsVars, bfsVars, recVars, reqVars, extVars, gapVars, cliVars>>

\* analyzeRepository(repoUrl) is called: tempDir is named and created.
BeginAnalysis(i) ==
    /\ invPc[i] = "idle"
    /\ tempDir' = [tempDir EXCEPT ![i] = tempDirAt(clock)]
    /\ tmpDirs' = tmpDirs \cup {tempDirAt(clock)}
    /\ invPc' = [invPc EXCEPT ![i] = "created"]
    /\ UNCHANGED <<repo, clock, outcome, selVars, clsVars, bfsVars, recVars, reqVars, extVars, gapVars, cliVars>>

\* git.clone(repoUrl, tempDir) succeeds: the directory does not hold the
\* clone of another invocation, and is created if it is missing.
Clone(i) ==
    /\ invPc[i] = "created"
    /\ \A j \in Invocations \ {i} :
           ~(/\ tempDir[j] = tempDir[i]
             /\ invPc[j] \in {"cloned", "done"}
             /\ tempDir[i] \in tmpDirs)
    /\ tmpDirs' = tmpDirs \cup {tempDir[i]}
    /\ invPc' = [invPc EXCEPT ![i] = "cloned"]
    /\ UNCHANGED <<repo, clock, tempDir, outcome, selVars, clsVars, bfsVars, recVars, reqVars, extVars, gapVars, cliVars>>

\* The analyzers run and the RepoAnalysis is returned: buildFileTree reads
\* the directory, which is there.
Analyze(i) ==
    /\ invPc[i] = "cloned"
    /\ tempDir[i] \in tmpDirs
    /\ outcome' = [outcome EXCEPT ![i] = repoAnalysis(repo, tempDir[i])]
    /\ invPc' = [invPc EXCEPT ![i] = "done"]
    /\ UNCHANGED <<repo, clock, tmpDirs, tempDir, selVars, clsVars, bfsVars, recVars, reqVars, extVars, gapVars, cliVars>>

\* The catch block without its fs.remove(tempDir).
catchKeepingDirectory(i, message) ==
    /\ outcome' = [outcome EXCEPT
                     ![i] = [error |-> <<"Failed to analyze repository: ",
                                         message>>]]
    /\ invPc' = [invPc EXCEPT ![i] = "failed"]
    /\ UNCHANGED <<repo, clock, tmpDirs, tempDir, selVars, clsVars, bfsVars, recVars, reqVars, extVars, gapVars, cliVars>>

\* The catch block: tempDir is removed and 'Failed to analyze repository: '
\* followed by the message of the error caught is thrown.
catch(i, message) ==
    /\ tmpDirs' = tmpDirs \ {tempDir[i]}
    /\ outcome' = [outcome EXCEPT
                     ![i] = [error |-> <<"Failed to analyze repository: ",
                                         message>>]]
    /\ invPc' = [invPc EXCEPT ![i] = "failed"]
    /\ UNCHANGED <<repo, clock, tempDir, selVars, clsVars, bfsVars, recVars, reqVars, extVars, gapVars, cliVars>>

\* git.clone(repoUrl, tempDir) throws.
CloneFails(i) ==
    /\ invPc[i] = "created"
    /\ catch(i, "clone")

\* Reading biokit.config.json or the directories of the clone throws.
FileSystemFails(i) ==
    /\ invPc[i] = "cloned"
    /\ catch(i, "filesystem")

\* One of the analyzers that run on the clone throws: analyzeCodebase,
\* analyzeQuality and detectGaps run when code is found, analyzeRequirements
\* when documents are.
AnalyzerFails(i) ==
    /\ invPc[i] = "cloned"
    /\ repo.hasCode \/ repo.hasDocs
    /\ catch(i, "analyzer")

---------------------------------------------------------------------------
(***************************************************************************)
(* Design system detection                                                 *)
(***************************************************************************)

\* The packages of package.json that detectDesignSystem looks up; every
\* version is a non-empty string.
DependencyNames ==
    { "biokit-design-system", "@mui/material", "antd", "@chakra-ui/react",
      "tailwindcss", "styled-components", "@emotion/react" }

DevDependencyNames == { "@biokit/design-system", "@material-ui/core" }

\* The Tailwind configuration files a repository may hold at its root.
TailwindConfigs ==
    { "tailwind.config.js", "tailwind.config.ts", "tailwind.config.cjs" }

\* fs.pathExists(path.join(repoPath, name))
pathExists(repoFiles, name) == name \in repoFiles

\* The Tailwind branch without its look at the configuration files.
tailwindConfiguredAlways(repoFiles) == TRUE

\* configExists
tailwindConfigured(repoFiles) ==
    \/ pathExists(repoFiles, "tailwind.config.js")
    \/ pathExists(repoFiles, "tailwind.config.ts")

detectDesignSystem(repoFiles, packageJson) ==
    LET deps == packageJson.dependencies \cup packageJson.devDependencies
    IN  IF "biokit-design-system" \in deps \/ "@biokit/design-system" \in deps
        THEN "biokit"
        ELSE IF "@mui/material" \in deps \/ "@material-ui/core" \in deps
        THEN "material-ui"
        ELSE IF "antd" \in deps THEN "ant-design"
        ELSE IF "@chakra-ui/react" \in deps THEN "chakra"
        ELSE IF "tailwindcss" \in deps /\ tailwindConfigured(repoFiles)
        THEN "tailwind"
        ELSE IF "styled-components" \in deps \/ "@emotion/react" \in deps
        THEN "other"
        ELSE "none"

DesignSystemInputs ==
    /\ dsInput \in [packageJson : [dependencies : SUBSET DependencyNames,
                                   devDependencies : SUBSET DevDependencyNames],
                    files : SUBSET TailwindConfigs]
    /\ dsPc = "idle"
    /\ dsResult = NoValue

IdleDesignSystem ==
    /\ dsInput = [packageJson |-> [dependencies |-> {}, devDependencies |-> {}],
                  files |-> {}]
    /\ dsPc = "idle"
    /\ dsResult = NoValue

\* detectDesignSystem(repoPath, packageJson)
DetectDesignSystem ==
    /\ dsPc = "idle"
    /\ dsResult' = detectDesignSystem(dsInput.files, dsInput.packageJson)
    /\ dsPc' = "done"
    /\ UNCHANGED <<dsInput, selVars, clsVars, bfsVars, anaVars, recVars, reqVars, extVars, gapVars, intVars, genVars, cmdVars>>

---------------------------------------------------------------------------
(***************************************************************************)
(* Intent Analyzer                                                         *)
(***************************************************************************)

\* The actions, in the order of the patterns table.
IntentActions == <<"create", "update", "fix", "refactor", "enhance">>

\* The words of a request.
IntentWords ==
    { "Create", "address", "update", "prefix", "FIX", "improve", "clean",
      "extend", "login", "the" }

\* this.patterns[action].test(word): the patterns are unanchored and
\* case-insensitive, so that a verb inside a longer word matches.
testWord(action, word) ==
    CASE action = "create" -> word \in {"Create", "address"}
      [] action = "update" -> word \in {"update"}
      [] action = "fix" -> word \in {"prefix", "FIX"}
      [] action = "refactor" -> word \in {"improve", "clean"}
      [] action = "enhance" -> word \in {"extend"}

\* this.patterns[action].test(input), the input being its words joined by
\* blanks: no verb of the patterns holds a blank.
test(action, input) == \E i \in 1..Len(input) : testWord(action, input[i])

\* The last of the actions whose pattern matches.
extractActionLastMatch(input) ==
    LET F[i \in 0..Len(IntentActions)] ==
            IF i = 0 THEN "update"
            ELSE IF test(IntentActions[i], input) THEN IntentActions[i]
                 ELSE F[i - 1]
    IN  F[Len(IntentActions)]

\* The first of the actions, in the order of the table, whose pattern
\* matches the input; update when none does.
extractAction(input) ==
    LET F[i \in 1..(Len(IntentActions) + 1)] ==
            IF i > Len(IntentActions) THEN "update"
            ELSE IF test(IntentActions[i], input) THEN IntentActions[i]
                 ELSE F[i + 1]
    IN  F[1]

IntentInputs ==
    /\ intInput \in UNION { [1..n -> IntentWords] : n \in 0..MaxWords }
    /\ intPc = "idle"
    /\ intAction = NoValue

IdleIntent ==
    /\ intInput = <<>>
    /\ intPc = "idle"
    /\ intAction = NoValue

\* parseIntent(input), as far as the action goes.
ParseIntent ==
    /\ intPc = "idle"
    /\ intAction' = extractAction(intInput)
    /\ intPc' = "done"
    /\ UNCHANGED <<intInput, selVars, clsVars, bfsVars, anaVars, recVars, reqVars, extVars, gapVars, dsVars, genVars, cmdVars>>

---------------------------------------------------------------------------
(***************************************************************************)
(* Generator and generate command                                          *)
(***************************************************************************)

\* A string of recommendImprovements: the key, a colon and a blank, and the
\* description.
text(imp) == <<imp.key, ": ", imp.description>>

\* The string that is a key and nothing more, as in a case label.
label(key) == <<key>>

\* analysis.improvements, a string[]
texts(improvements) == [i \in 1..Len(improvements) |-> text(improvements[i])]

\* The values of options.improvements: 'all', 'select', or a string[].
All == [string |-> "all"]

Select == [string |-> "select"]

isArray(value) == "array" \in DOMAIN value

\* The cases of the switch of enhanceExistingApp: label and entry of changes.
Handled ==
    << <<"migrate-to-biokit-design-system", "Migrated to biokit-design-system">>,
       <<"add-typescript", "Added TypeScript support">>,
       <<"add-test-coverage", "Added test coverage">>,
       <<"improve-accessibility", "Improved accessibility">>,
       <<"add-error-boundaries", "Added error boundaries">>,
       <<"optimize-performance", "Optimized performance">>,
       <<"extract-env-variables", "Extracted environment variables">> >>

\* The for loop of enhanceExistingApp: changes, and the strings logged as
\* skipped by the default case.
applyImprovements(improvementsToApply) ==
    LET case(str) ==
            { h \in 1..Len(Handled) : label(Handled[h][1]) = str }
        F[i \in 0..Len(improvementsToApply)] ==
            IF i = 0 THEN [changes |-> <<>>, skipped |-> <<>>]
            ELSE IF case(improvementsToApply[i]) # {}
            THEN [F[i - 1] EXCEPT !.changes =
                     Append(@, Handled[CHOOSE h \in
                                 case(improvementsToApply[i]) : TRUE][2])]
            ELSE [F[i - 1] EXCEPT !.skipped =
                     Append(@, improvementsToApply[i])]
    IN  F[Len(improvementsToApply)]

\* updatePackageJson reads package.json of the copy and throws if there is
\* none.
enhanceExistingApp(analysis, opts, packageJsonExists) ==
    LET improvementsToApply ==
            IF opts.improvements # All /\ isArray(opts.improvements)
            THEN opts.improvements.array
            ELSE texts(analysis.improvements)
        applied == applyImprovements(improvementsToApply)
    IN  IF packageJsonExists
        THEN [strategy |-> "enhanceExistingApp", failed |-> FALSE,
              changes |-> applied.changes, skipped |-> applied.skipped]
        ELSE [strategy |-> "enhanceExistingApp", failed |-> TRUE,
              changes |-> applied.changes, skipped |-> applied.skipped]

buildFromScratch(analysis) ==
    [strategy |-> "buildFromScratch", failed |-> FALSE,
     changes |-> << "Created Next.js application structure",
                    "Set up TypeScript configuration",
                    "Configured Tailwind CSS",
                    "Integrated biokit-design-system",
                    "Implemented features from requirements" >>,
     skipped |-> <<>>]

completePartialImplementation(analysis) ==
    [strategy |-> "completePartialImplementation", failed |-> FALSE,
     changes |-> << "Completed TODO items", "Implemented stub functions",
                    "Replaced mock data",
                    "Added missing features from requirements" >>
                 \o (IF analysis.codeQuality.designSystem # "biokit"
                     THEN <<"Migrated to biokit-design-system">> ELSE <<>>),
     skipped |-> <<>>]

applyHybridApproach(analysis) ==
    [strategy |-> "applyHybridApproach", failed |-> FALSE,
     changes |-> << "Enhanced existing components", "Improved code quality",
                    "Implemented new features from requirements",
                    "Added missing pages and components",
                    "Integrated new and existing features",
                    "Ensured consistent design system usage" >>,
     skipped |-> <<>>]

\* The switch on analysis.type; options.mode is not read.
generateApplication(analysis, opts, packageJsonExists) ==
    CASE analysis.type = "requirements-only" -> buildFromScratch(analysis)
      [] analysis.type = "existing-app" ->
             enhanceExistingApp(analysis, opts, packageJsonExists)
      [] analysis.type = "partial-implementation" ->
             completePartialImplementation(analysis)
      [] analysis.type = "hybrid" -> applyHybridApproach(analysis)

\* Step 2 of generateCommand
generationModeOf(mode, analysis) ==
    IF mode = "auto"
    THEN (IF analysis.hasCode THEN "enhance" ELSE "build")
    ELSE mode

\* Whether the clone of r holds a package.json.
hasPackageJson(r) == r.hasCode /\ r.code.packageJson # Undefined

GeneratorInputs ==
    /\ genRepo \in Repos
    /\ genOptions \in [mode : {"auto", "build", "enhance"},
                       improvements : {All, Select}]
    /\ genPc = "idle"
    /\ genResult = NoValue

IdleGenerator ==
    /\ genRepo = EmptyRepo
    /\ genOptions = [mode |-> "auto", improvements |-> All]
    /\ genPc = "idle"
    /\ genResult = NoValue

\* generateCommand(repoUrl, options): the repository is analysed, the mode
\* is determined and generateApplication is called with it.
GenerateCommand ==
    /\ genPc = "idle"
    /\ LET analysis == repoAnalysis(genRepo, tempDirAt(0))
           generationMode == generationModeOf(genOptions.mode, analysis)
           project == generateApplication(
                          analysis,
                          [mode |-> generationMode,
                           improvements |-> genOptions.improvements],
                          hasPackageJson(genRepo))
       IN  /\ genResult' = [generationMode |-> generationMode,
                            analysis |-> analysis, project |-> project]
           /\ genPc' = IF project.failed THEN "failed" ELSE "done"
    /\ UNCHANGED <<genRepo, genOptions, selVars, clsVars, bfsVars, anaVars, recVars, reqVars, extVars, gapVars, dsVars, intVars, cmdVars>>

\* analyzeRepository throws: the catch block of generateCommand exits.
GenerateCommandFails ==
    /\ genPc = "idle"
    /\ genResult' = [error |-> "Failed to analyze repository: "]
    /\ genPc' = "failed"
    /\ UNCHANGED <<genRepo, genOptions, selVars, clsVars, bfsVars, anaVars, recVars, reqVars, extVars, gapVars, dsVars, intVars, cmdVars>>

---------------------------------------------------------------------------
(***************************************************************************)
(* enhance command                                                         *)
(***************************************************************************)

\* The boxes the user leaves checked, of choices that are all checked at
\* first: every one, none, or the first one.
Selections(choices) == {choices, <<>>, SubSeq(choices, 1, 1)}

\* The prompt answered with yes or no alike.
proceedsAlways(confirm) == TRUE

\* if (!confirm) return
proceeds(confirm) == confirm = "yes"

\* The analysis enhanceCommand holds once analyzeRepository has returned.
cmdAnalysis == repoAnalysis(cmdRepo, tempDirAt(0))

CommandInputs ==
    /\ cmdRepo \in Repos
    /\ cmdOptions \in [improvements : {All, Select}]
    /\ cmdPc = "idle"
    /\ cmdSelected = <<>>
    /\ cmdConfirm = "unasked"
    /\ cmdOutputDir = FALSE
    /\ cmdCalls = <<>>

IdleCommand ==
    /\ cmdRepo = EmptyRepo
    /\ cmdOptions = [improvements |-> Select]
    /\ cmdPc = "idle"
    /\ cmdSelected = <<>>
    /\ cmdConfirm = "unasked"
    /\ cmdOutputDir = FALSE
    /\ cmdCalls = <<>>

\* analyzeRepository(repoUrl) returns.
CmdAnalyze ==
    /\ cmdPc = "idle"
    /\ cmdPc' = "analysed"
    /\ UNCHANGED <<cmdRepo, cmdOptions, cmdSelected, cmdConfirm, cmdOutputDir, cmdCalls, selVars, clsVars, bfsVars, anaVars, recVars, reqVars, extVars, gapVars, dsVars, intVars, genVars>>

\* analyzeRepository or fs.ensureDir throws: the catch block exits the
\* process.
CmdFails ==
    /\ cmdPc \in {"idle", "confirmed"}
    /\ cmdPc' = "exited"
    /\ UNCHANGED <<cmdRepo, cmdOptions, cmdSelected, cmdConfirm, cmdOutputDir, cmdCalls, selVars, clsVars, bfsVars, anaVars, recVars, reqVars, extVars, gapVars, dsVars, intVars, genVars>>

\* if (!analysis.hasCode) return
CmdNoCode ==
    /\ cmdPc = "analysed"
    /\ ~cmdAnalysis.hasCode
    /\ cmdPc' = "returned"
    /\ UNCHANGED <<cmdRepo, cmdOptions, cmdSelected, cmdConfirm, cmdOutputDir, cmdCalls, selVars, clsVars, bfsVars, anaVars, recVars, reqVars, extVars, gapVars, dsVars, intVars, genVars>>

\* selectedImprovements: the improvements of the analysis, or what the user
\* selects of them at the checkbox prompt.
CmdSelect ==
    /\ cmdPc = "analysed"
    /\ cmdAnalysis.hasCode
    /\ LET improvements == texts(cmdAnalysis.improvements)
       IN  IF cmdOptions.improvements = Select /\ Len(improvements) > 0
           THEN cmdSelected' \in Selections(improvements)
           ELSE cmdSelected' = improvements
    /\ cmdPc' = "selected"
    /\ UNCHANGED <<cmdRepo, cmdOptions, cmdConfirm, cmdOutputDir, cmdCalls, selVars, clsVars, bfsVars, anaVars, recVars, reqVars, extVars, gapVars, dsVars, intVars, genVars>>

\* if (selectedImprovements.length === 0) return
CmdNothingSelected ==
    /\ cmdPc = "selected"
    /\ Len(cmdSelected) = 0
    /\ cmdPc' = "returned"
    /\ UNCHANGED <<cmdRepo, cmdOptions, cmdSelected, cmdConfirm, cmdOutputDir, cmdCalls, selVars, clsVars, bfsVars, anaVars, recVars, reqVars, extVars, gapVars, dsVars, intVars, genVars>>

\* The confirmation prompt is answered.
CmdConfirm ==
    /\ cmdPc = "selected"
    /\ Len(cmdSelected) # 0
    /\ \E answer \in {"yes", "no"} :
           /\ cmdConfirm' = answer
           /\ cmdPc' = IF proceeds(answer) THEN "confirmed" ELSE "returned"
    /\ UNCHANGED <<cmdRepo, cmdOptions, cmdSelected, cmdOutputDir, cmdCalls, selVars, clsVars, bfsVars, anaVars, recVars, reqVars, extVars, gapVars, dsVars, intVars, genVars>>

\* fs.ensureDir(outputDir)
CmdEnsureDir ==
    /\ cmdPc = "confirmed"
    /\ cmdOutputDir' = TRUE
    /\ cmdPc' = "prepared"
    /\ UNCHANGED <<cmdRepo, cmdOptions, cmdSelected, cmdConfirm, cmdCalls, selVars, clsVars, bfsVars, anaVars, recVars, reqVars, extVars, gapVars, dsVars, intVars, genVars>>

\* generateApplication(analysis, outputDir, {mode: 'enhance', improvements:
\* selectedImprovements, ...}) is called, and returns or throws.
CmdGenerate ==
    /\ cmdPc = "prepared"
    /\ LET opts == [mode |-> "enhance",
                    improvements |-> [array |-> cmdSelected]]
           project == generateApplication(cmdAnalysis, opts,
                                          hasPackageJson(cmdRepo))
       IN  /\ cmdCalls' = Append(cmdCalls,
                                 [options |-> opts, project |-> project])
           /\ cmdPc' = IF project.failed THEN "exited" ELSE "returned"
    /\ UNCHANGED <<cmdRepo, cmdOptions, cmdSelected, cmdConfirm, cmdOutputDir, selVars, clsVars, bfsVars, anaVars, recVars, reqVars, extVars, gapVars, dsVars, intVars, genVars>>

IdleCLI ==
    /\ IdleDesignSystem
    /\ IdleIntent
    /\ IdleGenerator
    /\ IdleCommand

---------------------------------------------------------------------------
(***************************************************************************)
(* Specifications                                                          *)
(***************************************************************************)

InitSelector ==
    /\ SelectorInputs
    /\ IdleClassifier
    /\ IdleBFS
    /\ IdleAnalysis
    /\ IdleRecommender
    /\ IdleRequirements
    /\ IdleExtractor
    /\ IdleGaps
    /\ IdleCLI
NextSelector == CallSelectWithinBudget \/ CallSelectFiles
SpecSelector == InitSelector /\ [][NextSelector]_vars

InitClassifier ==
    /\ ClassifierInputs
    /\ IdleSelector
    /\ IdleBFS
    /\ IdleAnalysis
    /\ IdleRecommender
    /\ IdleRequirements
    /\ IdleExtractor
    /\ IdleGaps
    /\ IdleCLI
NextClassifier == Classify
SpecClassifier == InitClassifier /\ [][NextClassifier]_vars

InitBFS ==
    /\ BFSInputs
    /\ IdleSelector
    /\ IdleClassifier
    /\ IdleAnalysis
    /\ IdleRecommender
    /\ IdleRequirements
    /\ IdleExtractor
    /\ IdleGaps
    /\ IdleCLI
NextBFS == FindRelatedFiles \/ SkipEntry \/ ExpandEntry \/ ReturnRelated
SpecBFS == InitBFS /\ [][NextBFS]_vars
\* The loop runs to completion once called: nothing suspends it.
FairSpecBFS == SpecBFS /\ WF_vars(NextBFS)

InitAnalysis ==
    /\ AnalysisInputs
    /\ IdleSelector
    /\ IdleClassifier
    /\ IdleBFS
    /\ IdleRecommender
    /\ IdleRequirements
    /\ IdleExtractor
    /\ IdleGaps
    /\ IdleCLI
NextAnalysis ==
    \/ Tick
    \/ \E i \in Invocations : BeginAnalysis(i) \/ Clone(i) \/ Analyze(i) \/ CloneFails(i) \/ FileSystemFails(i) \/ AnalyzerFails(i)
SpecAnalysis == InitAnalysis /\ [][NextAnalysis]_vars

InitRecommender ==
    /\ RecommenderInputs
    /\ IdleSelector
    /\ IdleClassifier
    /\ IdleBFS
    /\ IdleAnalysis
    /\ IdleRequirements
    /\ IdleExtractor
    /\ IdleGaps
    /\ IdleCLI
NextRecommender == Recommend
SpecRecommender == InitRecommender /\ [][NextRecommender]_vars

InitPRD ==
    /\ PRDInputs
    /\ IdleSelector
    /\ IdleClassifier
    /\ IdleBFS
    /\ IdleAnalysis
    /\ IdleRecommender
    /\ IdleRequirements
    /\ IdleGaps
    /\ IdleCLI
NextPRD == ExtractFeaturesFromPRD
SpecPRD == InitPRD /\ [][NextPRD]_vars

InitFlows ==
    /\ FlowInputs
    /\ IdleSelector
    /\ IdleClassifier
    /\ IdleBFS
    /\ IdleAnalysis
    /\ IdleRecommender
    /\ IdleRequirements
    /\ IdleGaps
    /\ IdleCLI
NextFlows == ExtractUserFlows
SpecFlows == InitFlows /\ [][NextFlows]_vars

InitRequirements ==
    /\ RequirementsInputs
    /\ IdleSelector
    /\ IdleClassifier
    /\ IdleBFS
    /\ IdleAnalysis
    /\ IdleRecommender
    /\ IdleExtractor
    /\ IdleGaps
    /\ IdleCLI
NextRequirements == AnalyzeRequirements
SpecRequirements == InitRequirements /\ [][NextRequirements]_vars

InitGaps ==
    /\ GapsInputs
    /\ IdleSelector
    /\ IdleClassifier
    /\ IdleBFS
    /\ IdleAnalysis
    /\ IdleRecommender
    /\ IdleRequirements
    /\ IdleExtractor
    /\ IdleCLI
NextGaps == DetectGaps
SpecGaps == InitGaps /\ [][NextGaps]_vars

InitDesignSystem ==
    /\ DesignSystemInputs
    /\ IdleSelector
    /\ IdleClassifier
    /\ IdleBFS
    /\ IdleAnalysis
    /\ IdleRecommender
    /\ IdleRequirements
    /\ IdleExtractor
    /\ IdleGaps
    /\ IdleIntent
    /\ IdleGenerator
    /\ IdleCommand
NextDesignSystem == DetectDesignSystem
SpecDesignSystem == InitDesignSystem /\ [][NextDesignSystem]_vars

InitIntent ==
    /\ IntentInputs
    /\ IdleSelector
    /\ IdleClassifier
    /\ IdleBFS
    /\ IdleAnalysis
    /\ IdleRecommender
    /\ IdleRequirements
    /\ IdleExtractor
    /\ IdleGaps
    /\ IdleDesignSystem
    /\ IdleGenerator
    /\ IdleCommand
NextIntent == ParseIntent
SpecIntent == InitIntent /\ [][NextIntent]_vars

InitGenerator ==
    /\ GeneratorInputs
    /\ IdleSelector
    /\ IdleClassifier
    /\ IdleBFS
    /\ IdleAnalysis
    /\ IdleRecommender
    /\ IdleRequirements
    /\ IdleExtractor
    /\ IdleGaps
    /\ IdleDesignSystem
    /\ IdleIntent
    /\ IdleCommand
NextGenerator == GenerateCommand \/ GenerateCommandFails
SpecGenerator == InitGenerator /\ [][NextGenerator]_vars

InitCommand ==
    /\ CommandInputs
    /\ IdleSelector
    /\ IdleClassifier
    /\ IdleBFS
    /\ IdleAnalysis
    /\ IdleRecommender
    /\ IdleRequirements
    /\ IdleExtractor
    /\ IdleGaps
    /\ IdleDesignSystem
    /\ IdleIntent
    /\ IdleGenerator
NextCommand ==
    \/ CmdAnalyze
    \/ CmdFails
    \/ CmdNoCode
    \/ CmdSelect
    \/ CmdNothingSelected
    \/ CmdConfirm
    \/ CmdEnsureDir
    \/ CmdGenerate
SpecCommand == InitCommand /\ [][NextCommand]_vars
FairSpecCommand == SpecCommand /\ WF_vars(NextCommand)


---------------------------------------------------------------------------
(***************************************************************************)
(* Properties of the Context Selector                                      *)
(***************************************************************************)

RECURSIVE SumTokens(_)
SumTokens(files) ==
    IF files = <<>> THEN 0
    ELSE count(files[1]) + SumTokens(SubSeq(files, 2, Len(files)))

\* f is a highest-scoring file of the list handed to selectWithinBudget.
IsTopCandidate(f) ==
    /\ \E i \in 1..Len(prioritized) : prioritized[i].path = f.path
    /\ \A i \in 1..Len(prioritized) : prioritized[i].score <= f.score

\* C1: the estimated tokens of the files selectWithinBudget returns sum to at
\* most maxTokens, or exactly one file is returned and it is the
\* highest-scoring candidate, truncated to maxTokens.
C1_BudgetRespected ==
    selPc # "idle" =>
        \/ /\ SumTokens(selected) <= options.maxTokens
           /\ \A i \in 1..Len(selected) : ~selected[i].truncated
        \/ /\ Len(selected) = 1
           /\ selected[1].truncated
           /\ IsTopCandidate(selected[1])

\* Several candidates, the best of which exceeds the budget: one truncated
\* file comes back.
C1_Witness ==
    /\ selPc = "budget"
    /\ Len(manifest) >= 2
    /\ options.maxTokens = 1
    /\ Len(selected) = 1
    /\ selected[1].truncated
    /\ selected[1].score > 0

\* C2: a non-empty candidate list handed to selectWithinBudget never yields
\* an empty selection, whatever maxTokens is.
C2_AtLeastOne ==
    (selPc # "idle" /\ prioritized # <<>>) => selected # <<>>

\* A limit smaller than every candidate file.
C2_Witness ==
    /\ selPc = "budget"
    /\ Len(manifest) = MaxLen
    /\ \A i \in 1..Len(manifest) : manifest[i].tokens > options.maxTokens
    /\ selected # <<>>

C10_StableDescending ==
    selPc # "idle" =>
        \A i, j \in 1..Len(selected) :
            i < j =>
                \/ selected[i].score > selected[j].score
                \/ /\ selected[i].score = selected[j].score
                   /\ selected[i].path < selected[j].path

\* The last file of the input scores highest and the first two tie.
C10_Witness ==
    /\ selPc = "budget"
    /\ Len(selected) = 3
    /\ selected[1].path = 3
    /\ selected[2].path = 1
    /\ selected[3].path = 2
    /\ selected[2].score = selected[3].score

---------------------------------------------------------------------------
(***************************************************************************)
(* Properties of the Classifier                                            *)
(***************************************************************************)

\* C3: classifyRepository is the first-match decision table.
C3_DecisionTable ==
    clsPc = "done" =>
        /\ (~hasCode /\ hasDocs) => repoType = "requirements-only"
        /\ (hasCode /\ ~hasDocs) => repoType = "existing-app"
        /\ (hasCode /\ hasDocs /\ codeAnalysis = Null)
               => repoType = "partial-implementation"
        /\ (hasCode /\ hasDocs /\ codeAnalysis # Null) =>
               IF codeAnalysis.components = 0 \/ codeAnalysis.pages = 0
               THEN repoType = "partial-implementation"
               ELSE IF codeAnalysis.tests >= 1 /\ codeAnalysis.components > 5
               THEN repoType = "existing-app"
               ELSE repoType = "hybrid"
        /\ (~hasCode /\ ~hasDocs) => repoType = "requirements-only"

\* Code and documents, tests, pages and exactly 5 components: hybrid.
C3_Witness ==
    /\ clsPc = "done"
    /\ hasCode /\ hasDocs
    /\ codeAnalysis # Null
    /\ codeAnalysis.components = 5
    /\ codeAnalysis.pages > 0
    /\ codeAnalysis.tests > 0
    /\ repoType = "hybrid"

\* C4: classifyRepository returns one of the four archetypes for every input.
C4_Total ==
    clsPc = "done" => repoType \in RepoType

\* Neither code nor documents, with an analysis present.
C4_Witness ==
    /\ clsPc = "done"
    /\ ~hasCode /\ ~hasDocs
    /\ codeAnalysis # Null
    /\ repoType = "requirements-only"

---------------------------------------------------------------------------
(***************************************************************************)
(* Properties of dependency expansion                                      *)
(***************************************************************************)

Range(seq) == {seq[i] : i \in 1..Len(seq)}

NoDuplicates(seq) == \A i, j \in 1..Len(seq) : i # j => seq[i] # seq[j]

\* The import cycle A -> B -> A.
IsCycleAB == graph["A"] = {"B"} /\ graph["B"] = {"A"}

\* The paths at most d import edges away from target.
RECURSIVE WithinEdges(_, _)
WithinEdges(target, d) ==
    IF d = 0 THEN {target}
    ELSE LET near == WithinEdges(target, d - 1)
         IN  near \cup UNION {graph[p] : p \in near}

\* C6: findRelatedFiles terminates on every graph, cyclic or not, whatever
\* the depth, and returns each path once; on the cycle A -> B -> A started at
\* A (depth 1 or more, the default included) it returns exactly A and B.
C6_TerminatesOnCycles ==
    <>[](/\ bfsPc = "done"
         /\ NoDuplicates(bfsResult)
         /\ (IsCycleAB /\ bfsCall.targetFile = "A" /\ bfsCall.depth >= 1)
                => bfsResult = <<"A", "B">>)

\* The cycle A -> B -> A expanded from A with the default depth.
C6_Witness ==
    /\ bfsPc = "done"
    /\ IsCycleAB
    /\ bfsCall = [targetFile |-> "A", depth |-> DefaultDepth]
    /\ expansions["A"] = 1 /\ expansions["B"] = 1
    /\ bfsResult = <<"A", "B">>

\* C7: no path has its dependencies expanded more than once.
C7_NeverRevisits ==
    \A p \in Paths : expansions[p] <= 1

\* C8: findRelatedFiles returns exactly the paths at most depth import edges
\* away from the target.
C8_ExactlyWithinDepth ==
    bfsPc = "done" =>
        Range(bfsResult) = WithinEdges(bfsCall.targetFile, bfsCall.depth)

\* The chain A -> B -> C -> D from A with the default depth: D is too far.
C8_Witness ==
    /\ bfsPc = "done"
    /\ graph["A"] = {"B"} /\ graph["B"] = {"C"} /\ graph["C"] = {"D"}
    /\ bfsCall = [targetFile |-> "A", depth |-> DefaultDepth]
    /\ bfsResult = <<"A", "B", "C">>

---------------------------------------------------------------------------
(***************************************************************************)
(* Properties of the analysis pipeline                                    *)
(***************************************************************************)

\* C5: two invocations of analyzeRepository on the same repository content
\* return identical RepoAnalysis values.
C5_Reproducible ==
    (invPc[1] = "done" /\ invPc[2] = "done") => outcome[1] = outcome[2]

---------------------------------------------------------------------------
(***************************************************************************)
(* Claims about the Recommendation Engine                                  *)
(***************************************************************************)

\* The keys of a list of improvements, in order.
keysOf(list) == [i \in 1..Len(list) |-> list[i].key]

\* C12: for every code analysis, quality profile and gap list, the list
\* recommendImprovements returns holds no two recommendations with the same
\* key.
C12_UniqueKeys ==
    recPc = "done" =>
        \A i, j \in 1..Len(recOutput) :
            i # j => recOutput[i].key # recOutput[j].key

\* Every rule that can fire together has fired: sixteen recommendations.
C12_Witness ==
    /\ recPc = "done"
    /\ Len(recOutput) = 16

\* The order in which the rules are written in recommendImprovements.
CodeRuleOrder ==
    << "migrate-to-biokit-design-system", "add-typescript",
       "add-test-coverage", "improve-test-coverage", "complete-todos",
       "replace-mock-data", "implement-stubs", "add-error-boundaries",
       "improve-accessibility", "optimize-performance",
       "extract-env-variables", "add-documentation", "add-ci-cd",
       "add-linting", "improve-seo", "add-loading-states",
       "add-form-validation" >>

\* The order the rules are said to have: the gap rules end with
\* complete-todos, and the baseline recommendations follow.
StatedRuleOrder ==
    << {"migrate-to-biokit-design-system"}, {"add-typescript"},
       {"add-test-coverage", "improve-test-coverage"}, {"replace-mock-data"},
       {"implement-stubs"}, {"complete-todos"},
       {"improve-accessibility", "add-ci-cd", "improve-seo",
        "add-loading-states"} >>

rankIn(order, k) == CHOOSE i \in 1..Len(order) : order[i] = k

stageIn(stages, k) == CHOOSE i \in 1..Len(stages) : k \in stages[i]

\* C13 as stated: the recommendations appear in the order design-system
\* migration, add-typing, add-tests or improve-coverage, replace-mock-data,
\* implement-stubs, complete-todos, then the baseline recommendations.
C13_StatedRuleOrder ==
    recPc = "done" =>
        LET keys == keysOf(recOutput)
            staged == { i \in 1..Len(keys) :
                          \E s \in 1..Len(StatedRuleOrder) :
                              keys[i] \in StatedRuleOrder[s] }
        IN  \A i, j \in staged :
                i < j => stageIn(StatedRuleOrder, keys[i])
                             <= stageIn(StatedRuleOrder, keys[j])

\* C13, amended: the recommendations appear in the order of the rules in the
\* code for every input; complete-todos precedes replace-mock-data, which
\* precedes implement-stubs, and the unconditional recommendations are
\* interleaved with the conditional ones that follow the gap rules.
C13_CodeRuleOrder ==
    recPc = "done" =>
        LET keys == keysOf(recOutput)
        IN  /\ \A i \in 1..Len(keys) :
                   \E r \in 1..Len(CodeRuleOrder) : CodeRuleOrder[r] = keys[i]
            /\ \A i, j \in 1..Len(keys) :
                   i < j => rankIn(CodeRuleOrder, keys[i])
                                < rankIn(CodeRuleOrder, keys[j])

\* The three gap recommendations are all emitted.
C13_Witness ==
    /\ recPc = "done"
    /\ {"complete-todos", "replace-mock-data", "implement-stubs"}
           \subseteq { recOutput[i].key : i \in 1..Len(recOutput) }

Baseline == {"improve-accessibility", "add-ci-cd", "add-loading-states"}

\* C14 as stated: for every input, a null code analysis or a null quality
\* profile included, the output contains improve-accessibility, add-ci-cd and
\* add-loading-states.
C14_BaselineForEveryInput ==
    recPc = "done" =>
        Baseline \subseteq { recOutput[i].key : i \in 1..Len(recOutput) }

\* C14, amended: when both the code analysis and the quality profile are
\* present the output contains improve-accessibility, add-ci-cd and
\* add-loading-states, whatever the gap list; when either is null the output
\* is empty.
C14_BaselineWhenAnalysed ==
    recPc = "done" =>
        IF recInput.code = Null \/ recInput.quality = Null
        THEN recOutput = <<>>
        ELSE Baseline \subseteq { recOutput[i].key : i \in 1..Len(recOutput) }

\* An analysed codebase with no components and no gaps still gets the three.
C14_Witness ==
    /\ recPc = "done"
    /\ recInput.code # Null
    /\ recInput.quality # Null
    /\ recInput.code.components = 0
    /\ recInput.gaps = <<>>
    /\ Baseline \subseteq { recOutput[i].key : i \in 1..Len(recOutput) }

---------------------------------------------------------------------------
(***************************************************************************)
(* Claims about analyzeRepository                                          *)
(***************************************************************************)

\* C16: for a repository in which no code file and no document file is
\* found, analyzeRepository does not fail once the clone is made: no analyzer
\* error is thrown, and the value returned has type requirements-only,
\* hasCode and hasRequirements false, the default quality profile, every
\* requirement flag false and an empty improvements list.
C16_EmptyCorpus ==
    (~repo.hasCode /\ ~repo.hasDocs) =>
        \A i \in Invocations :
            /\ invPc[i] = "failed" =>
                   outcome[i].error[2] # "analyzer"
            /\ invPc[i] = "done" =>
                   /\ outcome[i].type = "requirements-only"
                   /\ outcome[i].hasCode = FALSE
                   /\ outcome[i].hasRequirements = FALSE
                   /\ outcome[i].codeQuality.hasTests = FALSE
                   /\ outcome[i].codeQuality.hasTypescript = FALSE
                   /\ outcome[i].codeQuality.designSystem = "none"
                   /\ \A flag \in {"prd", "userStories", "technicalSpecs",
                                   "mockups", "dataModels"} :
                          outcome[i].requirements[flag] = FALSE
                   /\ outcome[i].improvements = <<>>

\* An invocation on the empty repository has returned.
C16_Witness ==
    /\ ~repo.hasCode
    /\ ~repo.hasDocs
    /\ \E i \in Invocations : invPc[i] = "done"

\* C17: no two invocations ever use the same temporary directory, and the
\* directory of an invocation that is still at work exists: the failure
\* cleanup of one invocation does not remove the directory of another.
C17_OwnWorkingCopy ==
    /\ \A i, j \in Invocations :
           (i # j /\ invPc[i] # "idle" /\ invPc[j] # "idle") =>
               tempDir[i] # tempDir[j]
    /\ \A i \in Invocations :
           invPc[i] \in {"created", "cloned"} => tempDir[i] \in tmpDirs

---------------------------------------------------------------------------
(***************************************************************************)
(* Claims about the extractors                                             *)
(***************************************************************************)

\* The flag when line i of the content is read: a features heading came
\* before it, and no heading that ends the section since, line i included.
insideAt(i) ==
    \E j \in 1..(i - 1) :
        /\ isFeaturesHeading(content[j])
        /\ \A k \in (j + 1)..i :
               ~(isSectionHeading(content[k]) /\ ~mentionsFeatures(content[k]))

\* The bullet lines read while the flag is set, in document order.
featureLines ==
    LET B[i \in 0..Len(content)] ==
            IF i = 0 THEN <<>>
            ELSE IF isBullet(content[i]) /\ insideAt(i)
                 THEN Append(B[i - 1], i)
                 ELSE B[i - 1]
    IN  B[Len(content)]

\* The indented lines read while the flag is set, after bullet line b and
\* before the next bullet line that becomes a feature.
continuationLines(b) ==
    LET after(i) == \A c \in (b + 1)..i : ~(isBullet(content[c]) /\ insideAt(c))
        D[i \in b..Len(content)] ==
            IF i = b THEN <<>>
            ELSE IF isIndented(content[i]) /\ insideAt(i) /\ after(i)
                 THEN Append(D[i - 1], trim(content[i]))
                 ELSE D[i - 1]
    IN  D[Len(content)]

\* C18: extractFeaturesFromPRD returns exactly one feature per bullet line
\* read while inside a features section, in document order, and none for the
\* other bullets; the section starts at a level 1-3 features heading and ends
\* at a later level 1-3 heading that does not mention features, functionality
\* or requirements; the indented lines read while inside are appended to the
\* description of the feature created last.
C18_FeaturesFromBullets ==
    extPc = "features" =>
        /\ Len(extResult) = Len(featureLines)
        /\ \A n \in 1..Len(featureLines) :
               /\ extResult[n].name = bulletText(content[featureLines[n]])
               /\ extResult[n].description
                      = continuationLines(featureLines[n])

\* A bullet before the section is skipped, one inside it becomes a feature
\* and gets the indented line that follows as its description.
C18_Witness ==
    /\ extPc = "features"
    /\ content = <<"- Login", "## Features", "* login", "  detail">>
    /\ extResult = <<[name |-> "login", priority |-> "medium",
                      description |-> <<"detail">>]>>

\* A heading of level 1 through 6.
isHeading(line) ==
    line \in { "## User Flow", "# Journey", "## Checkout flow", "## Overview",
               "#### Step 1", "###### Note" }

\* C19 as stated: no heading line, of level 1 through 6, that follows the
\* flow heading is included in the content of the flow.
C19_NoHeadingInFlow ==
    extPc = "flows" =>
        \A f \in 1..Len(extResult) :
            \A k \in 2..Len(extResult[f]) : ~isHeading(extResult[f][k])

\* The flow headings of the content, in document order.
flowHeadings ==
    LET H[i \in 0..Len(content)] ==
            IF i = 0 THEN <<>>
            ELSE IF isFlowHeading(content[i]) THEN Append(H[i - 1], i)
                 ELSE H[i - 1]
    IN  H[Len(content)]

\* The first line after h that is a heading of level 1 to 3, or the end.
flowEnd(h) ==
    LET ends == { k \in (h + 1)..Len(content) :
                    isSectionHeading(content[k]) \/ isFlowHeading(content[k]) }
    IN  IF ends = {} THEN Len(content) + 1
        ELSE CHOOSE k \in ends : \A m \in ends : k <= m

\* C19, amended: the content of a flow runs until the next heading of level
\* 1 to 3: the flows are, in order, the text of each flow heading followed by
\* the lines up to that heading, trimmed; headings of level 4 to 6 in between
\* are lines of the flow.
C19_FlowUntilSectionHeading ==
    extPc = "flows" =>
        /\ Len(extResult) = Len(flowHeadings)
        /\ \A f \in 1..Len(flowHeadings) :
               LET h == flowHeadings[f]
               IN  extResult[f]
                       = trimText(<<headingText(content[h])>>
                                  \o SubSeq(content, h + 1, flowEnd(h) - 1))

\* A flow with a level 4 heading in it, ended by a level 2 heading.
C19_Witness ==
    /\ extPc = "flows"
    /\ content = <<"## User Flow", "#### Step 1", "step text", "## Overview">>
    /\ extResult = << <<"User Flow", "#### Step 1", "step text">> >>

---------------------------------------------------------------------------
(***************************************************************************)
(* Claims about the Requirements Extractor                                 *)
(***************************************************************************)

\* The features of all documents in the order they are pushed: document by
\* document, those of the PRD reading before those of the stories reading.
pooledFeatures ==
    LET ofDoc(doc) ==
            LET filename == toLowerCase(doc.file)
            IN  (IF includes(filename, "prd")
                        \/ includes(filename, "product-requirement")
                 THEN extractFeaturesFromPRD(doc.content) ELSE <<>>)
                \o (IF includes(filename, "user-stor")
                        \/ includes(filename, "stories")
                    THEN extractFeaturesFromUserStories(doc.content)
                    ELSE <<>>)
        P[i \in 0..Len(reqInput.files)] ==
            IF i = 0 THEN <<>> ELSE P[i - 1] \o ofDoc(reqInput.files[i])
    IN  P[Len(reqInput.files)]

equalIgnoringCase(a, b) == toLowerCase(a) = toLowerCase(b)

\* The entries of list whose name no earlier entry has, ignoring case.
firstOccurrencesByName(list) ==
    LET K[i \in 0..Len(list)] ==
            IF i = 0 THEN <<>>
            ELSE IF \E j \in 1..(i - 1) :
                        equalIgnoringCase(list[j].name, list[i].name)
                 THEN K[i - 1]
                 ELSE Append(K[i - 1], list[i])
    IN  K[Len(list)]

\* C11: the feature list analyzeRequirements returns holds no two features
\* whose names are equal ignoring case; it is the pooled list with, for each
\* name, only its first occurrence kept, in the pooled order.
C11_FirstOccurrenceWins ==
    reqPc = "done" =>
        /\ \A i, j \in 1..Len(reqResult.features) :
               i # j => ~equalIgnoringCase(reqResult.features[i].name,
                                           reqResult.features[j].name)
        /\ reqResult.features = firstOccurrencesByName(pooledFeatures)

\* A PRD and a stories document that name Login in three spellings: of six
\* pooled features three are kept.
C11_Witness ==
    /\ reqPc = "done"
    /\ Len(pooledFeatures) = 6
    /\ [i \in 1..Len(reqResult.features) |-> reqResult.features[i].name]
           = <<"Login", "Export (must)", "Search">>

\* The documents whose file name contains 'data-model' or 'schema'.
dataModelDocs ==
    SelectSeq(reqInput.files, LAMBDA doc :
        \/ includes(toLowerCase(doc.file), "data-model")
        \/ includes(toLowerCase(doc.file), "schema"))

\* The models of the data model documents, in document order.
expectedModels ==
    LET M[i \in 0..Len(dataModelDocs)] ==
            IF i = 0 THEN <<>>
            ELSE M[i - 1] \o extractDataModels(dataModelDocs[i].content)
    IN  M[Len(dataModelDocs)]

\* C15: when a document whose file name contains 'data-model' or 'schema' is
\* scanned, analyzeRequirements completes without error and its dataModels
\* property holds the models extracted from the document.
C15_DataModelsKept ==
    (reqPc # "idle" /\ dataModelDocs # <<>>) =>
        /\ reqPc = "done"
        /\ reqResult.dataModels = [array |-> expectedModels]

---------------------------------------------------------------------------
(***************************************************************************)
(* Claims about the Gap Detector                                           *)
(***************************************************************************)

\* The gaps detected of one type at one line of one file.
gapsAt(type, file, i) ==
    SelectSeq(detected, LAMBDA g :
        /\ g.type = type
        /\ g.file = file
        /\ "line" \in DOMAIN g
        /\ g.line = i)

\* C20: gap detection is per line for every pattern family, stub detection
\* included: each line yields one gap with its 1-based number for each
\* pattern of the family it matches, whatever the other lines of the file.
C20_PerLine ==
    gapPc = "done" =>
        \A n \in 1..Len(codeFiles) :
            \A i \in 1..Len(codeFiles[n].lines) :
                LET file == codeFiles[n].path
                    line == codeFiles[n].lines[i]
                IN  /\ Len(gapsAt("stub", file, i)) = Len(stubPatterns(line))
                    /\ Len(gapsAt("mock", file, i)) = Len(mockPatterns(line))
                    /\ Len(gapsAt("placeholder", file, i))
                           = Len(placeholderPatterns(line))
                    /\ Len(gapsAt("incomplete", file, i))
                           = Len(incompletePatterns(line))

\* The lines of the vocabulary that hold a '//' comment with one of the
\* markers followed by text, and those of them whose marker is FIXME in some
\* letter case.
MarkerComments ==
    { "// TODO: wire api", "// FIXME: handle null case",
      "// fixme: lower case" }

FixmeComments == { "// FIXME: handle null case", "// fixme: lower case" }

\* C21: each line holding a marker comment yields exactly one gap of type
\* todo, numbered with the line's 1-based position, of priority high if and
\* only if the marker is FIXME in any letter case and medium otherwise; the
\* other lines yield no todo gap.
C21_OneTodoPerMarkerLine ==
    gapPc = "done" =>
        \A n \in 1..Len(codeFiles) :
            \A i \in 1..Len(codeFiles[n].lines) :
                LET todos == gapsAt("todo", codeFiles[n].path, i)
                    line == codeFiles[n].lines[i]
                IN  IF line \in MarkerComments
                    THEN /\ Len(todos) = 1
                         /\ todos[1].priority =
                                (IF line \in FixmeComments THEN "high"
                                 ELSE "medium")
                    ELSE todos = <<>>

\* A file whose line 12 is '// FIXME: handle null case', without another
\* marker, has been scanned and has yielded the one gap {todo, high, 12}.
C21_Witness ==
    /\ gapPc = "done"
    /\ \E n \in 1..Len(codeFiles) :
           LET f == codeFiles[n]
           IN  /\ Len(f.lines) = 12
               /\ f.lines[12] = "// FIXME: handle null case"
               /\ \A i \in 1..11 : f.lines[i] \notin MarkerComments
               /\ SelectSeq(detected, LAMBDA g : g.file = f.path)
                      = <<[type |-> "todo", file |-> f.path, line |-> 12,
                           description |-> "handle null case",
                           priority |-> "high"]>>

\* An index file: the file named index.
isIndexFile(file) == file = "index.ts"

\* The gaps of a file as a whole: of type incomplete, without line number.
wholeFileGaps(file) ==
    SelectSeq(detected, LAMBDA g :
        /\ g.type = "incomplete"
        /\ g.file = file
        /\ "line" \notin DOMAIN g)

\* C30: every scanned file gets exactly one whole-file gap, of priority
\* medium, if it has fewer than ShortFileLines lines and is not an index
\* file, and none otherwise.
C30_WholeFileGap ==
    gapPc = "done" =>
        \A n \in 1..Len(codeFiles) :
            LET whole == wholeFileGaps(codeFiles[n].path)
            IN  IF /\ Len(codeFiles[n].lines) < ShortFileLines
                   /\ ~isIndexFile(codeFiles[n].path)
                THEN Len(whole) = 1 /\ whole[1].priority = "medium"
                ELSE whole = <<>>

---------------------------------------------------------------------------
(***************************************************************************)
(* Further properties of the Context Selector                              *)
(***************************************************************************)

\* The paths of the selected files.
selectedPaths == { selected[i].path : i \in 1..Len(selected) }

\* The tokens selected before the turn of the k-th file in score order.
selectedBefore(sorted, k) ==
    SumTokens(SelectSeq(SubSeq(sorted, 1, k - 1),
                        LAMBDA f : f.path \in selectedPaths))

\* C27: the selection does not stop at the first file that does not fit.
\* When the top-scoring file fits, each file in score order is selected if
\* and only if its tokens, added to those selected before its turn, stay
\* within maxTokens: a file that would exceed the budget is skipped and
\* later files that still fit are selected.
C27_SkipsAndContinues ==
    LET sorted == sortByScore(prioritized)
    IN  (/\ selPc # "idle"
         /\ sorted # <<>>
         /\ sorted[1].tokens <= options.maxTokens) =>
            \A k \in 1..Len(sorted) :
                sorted[k].path \in selectedPaths
                    <=> selectedBefore(sorted, k) + sorted[k].tokens
                            <= options.maxTokens

\* The top file is selected, the second one would exceed the budget and is
\* skipped, and the third one, which still fits, is selected.
C27_Witness ==
    LET sorted == sortByScore(prioritized)
    IN  /\ selPc = "budget"
        /\ Len(sorted) = 3
        /\ sorted[1].tokens + sorted[2].tokens > options.maxTokens
        /\ sorted[2].score > sorted[3].score
        /\ selectedPaths = {sorted[1].path, sorted[3].path}

---------------------------------------------------------------------------
(***************************************************************************)
(* Further properties of the analysis pipeline                             *)
(***************************************************************************)

\* C26: in every RepoAnalysis returned, type is 'requirements-only' if and
\* only if hasCode is false; the code analysis handed to the classifier is
\* null exactly when hasCode is false, so that with hasCode the type is the
\* one the classifier derives from the analysis of the code and never its
\* fallback for a missing analysis; improvements is empty whenever hasCode
\* is false.
C26_TypeFollowsHasCode ==
    \A i \in Invocations :
        invPc[i] = "done" =>
            LET a == outcome[i]
            IN  /\ a.type = "requirements-only" <=> ~a.hasCode
                /\ codeAnalysisOf(repo) = Null <=> ~a.hasCode
                /\ a.hasCode =>
                       a.type = classifyRepository(TRUE, a.hasRequirements,
                                                   repo.code)
                /\ ~a.hasCode => a.improvements = <<>>

\* Both cases have been returned from: a repository with code and
\* documentation whose analysis makes it a hybrid, and one without code.
C26_Witness ==
    \E i \in Invocations :
        /\ invPc[i] = "done"
        /\ outcome[i].hasCode
        /\ outcome[i].hasRequirements
        /\ outcome[i].type = "hybrid"
        /\ outcome[i].improvements # <<>>

\* A repository with documentation only has been analysed.
C26_WitnessNoCode ==
    \E i \in Invocations :
        /\ invPc[i] = "done"
        /\ ~outcome[i].hasCode
        /\ outcome[i].hasRequirements
        /\ outcome[i].type = "requirements-only"

\* C28: when a step of analyzeRepository that follows the creation of the
\* temporary directory fails, the directory is gone when the error leaves
\* the call and the message of the error starts with 'Failed to analyze
\* repository: '; when the call returns, the directory is there and its path
\* is the localPath of the value returned.
C28_CleanupOnFailure ==
    [][\A i \in Invocations :
           /\ (invPc[i] # "failed" /\ invPc'[i] = "failed") =>
                  /\ tempDir[i] \notin tmpDirs'
                  /\ outcome'[i].error[1] = "Failed to analyze repository: "
           /\ (invPc[i] # "done" /\ invPc'[i] = "done") =>
                  /\ tempDir[i] \in tmpDirs'
                  /\ outcome'[i].localPath = tempDir[i]]_vars

\* One invocation has failed in an analyzer and its directory is gone, the
\* other has returned and its directory is kept.
C28_Witness ==
    \E i, j \in Invocations :
        /\ invPc[i] = "failed"
        /\ outcome[i].error = <<"Failed to analyze repository: ", "analyzer">>
        /\ tempDir[i] \notin tmpDirs
        /\ invPc[j] = "done"
        /\ outcome[j].localPath = tempDir[j]
        /\ tempDir[j] \in tmpDirs

---------------------------------------------------------------------------
(***************************************************************************)
(* Properties of the design system detection                               *)
(***************************************************************************)

\* The design systems in the order of their priority.
DesignSystemOrder ==
    <<"biokit", "material-ui", "ant-design", "chakra", "tailwind", "other",
      "none">>

\* The dependencies and development dependencies of the input.
dsDeps == dsInput.packageJson.dependencies
              \cup dsInput.packageJson.devDependencies

\* What makes a design system a match.
dsMatches(system) ==
    CASE system = "biokit" ->
             dsDeps \cap {"biokit-design-system", "@biokit/design-system"} # {}
      [] system = "material-ui" ->
             dsDeps \cap {"@mui/material", "@material-ui/core"} # {}
      [] system = "ant-design" -> "antd" \in dsDeps
      [] system = "chakra" -> "@chakra-ui/react" \in dsDeps
      [] system = "tailwind" ->
             /\ "tailwindcss" \in dsDeps
             /\ dsInput.files \cap {"tailwind.config.js", "tailwind.config.ts"}
                    # {}
      [] system = "other" ->
             dsDeps \cap {"styled-components", "@emotion/react"} # {}
      [] system = "none" -> TRUE

\* C22: detectDesignSystem returns the match of highest priority in the
\* order biokit, material-ui, ant-design, chakra, tailwind, other, none, for
\* every dependency set; tailwind is returned only if a Tailwind
\* configuration file exists, and a tailwindcss dependency without one falls
\* through to other and none.
C22_HighestPriorityMatch ==
    dsPc = "done" =>
        /\ \E k \in 1..Len(DesignSystemOrder) :
               /\ dsResult = DesignSystemOrder[k]
               /\ dsMatches(DesignSystemOrder[k])
               /\ \A j \in 1..(k - 1) : ~dsMatches(DesignSystemOrder[j])
        /\ dsResult = "tailwind" => dsInput.files # {}
        /\ ("tailwindcss" \in dsDeps /\ dsInput.files = {}) =>
               dsResult # "tailwind"

\* tailwindcss and styled-components without a configuration file: other.
C22_Witness ==
    /\ dsPc = "done"
    /\ dsDeps = {"tailwindcss", "styled-components"}
    /\ dsInput.files = {}
    /\ dsResult = "other"

---------------------------------------------------------------------------
(***************************************************************************)
(* Properties of the Intent Analyzer                                       *)
(***************************************************************************)

\* The actions whose pattern matches the request.
matchingActions ==
    { k \in 1..Len(IntentActions) : test(IntentActions[k], intInput) }

\* C23: the action of the intent is the first one, in the order create,
\* update, fix, refactor, enhance, whose pattern matches the request, and
\* update when no pattern matches; a request that matches several patterns
\* gets the one of highest priority.
C23_FirstMatchingAction ==
    intPc = "done" =>
        IF matchingActions = {} THEN intAction = "update"
        ELSE \E k \in matchingActions :
                 /\ intAction = IntentActions[k]
                 /\ \A j \in matchingActions : k <= j

\* A request that matches the patterns of enhance, fix and create, in that
\* order of its words, is a create request.
C23_Witness ==
    /\ intPc = "done"
    /\ intInput = <<"extend", "prefix", "address">>
    /\ intAction = "create"

---------------------------------------------------------------------------
(***************************************************************************)
(* Claims about the generate command                                       *)
(***************************************************************************)

\* C24: the mode option selects the strategy: with build the application is
\* built from scratch and with enhance the existing application is
\* enhanced, whatever the type of the repository; with auto the mode is
\* enhance if the repository has code and build otherwise.
C24_ModeSelectsStrategy ==
    (genPc # "idle" /\ "project" \in DOMAIN genResult) =>
        /\ genOptions.mode = "build" =>
               genResult.project.strategy = "buildFromScratch"
        /\ genOptions.mode = "enhance" =>
               genResult.project.strategy = "enhanceExistingApp"
        /\ genOptions.mode = "auto" =>
               genResult.generationMode
                   = (IF genResult.analysis.hasCode THEN "enhance"
                      ELSE "build")

\* The keys of the cases of enhanceExistingApp.
HandledKeys == { Handled[h][1] : h \in 1..Len(Handled) }

\* The entry of changes of a handled key.
changeOf(key) ==
    Handled[CHOOSE h \in 1..Len(Handled) : Handled[h][1] = key][2]

\* C25: when enhanceExistingApp runs with improvements 'all' on the analysis
\* of a repository, every recommendation whose key is one of the handled
\* ones is applied, its entry is in the changes of the project, and it is
\* not skipped as unknown.
C25_HandledApplied ==
    (/\ genPc = "done"
     /\ genOptions.improvements = All
     /\ genResult.project.strategy = "enhanceExistingApp") =>
        \A i \in 1..Len(genResult.analysis.improvements) :
            LET imp == genResult.analysis.improvements[i]
            IN  imp.key \in HandledKeys =>
                    /\ \E c \in 1..Len(genResult.project.changes) :
                           genResult.project.changes[c] = changeOf(imp.key)
                    /\ \A k \in 1..Len(genResult.project.skipped) :
                           genResult.project.skipped[k] # text(imp)

---------------------------------------------------------------------------
(***************************************************************************)
(* Properties of the enhance command                                       *)
(***************************************************************************)

\* C29: the enhance command calls generateApplication at most once, and
\* only when the analysis has code, the selected improvements are not empty
\* and the prompt was confirmed, the output directory being created before;
\* on the paths that return before, no output directory is created and
\* nothing is generated.
C29_GenerateOnceWhenConfirmed ==
    /\ [](/\ Len(cmdCalls) <= 1
          /\ (cmdCalls # <<>> \/ cmdOutputDir) =>
                 /\ cmdAnalysis.hasCode
                 /\ cmdSelected # <<>>
                 /\ cmdConfirm = "yes"
          /\ cmdCalls # <<>> =>
                 /\ cmdOutputDir
                 /\ cmdCalls[1].options
                        = [mode |-> "enhance",
                           improvements |-> [array |-> cmdSelected]])
    /\ [][cmdCalls' # cmdCalls =>
              /\ cmdCalls = <<>>
              /\ cmdPc = "prepared"]_vars

\* The command has generated after a confirmed selection of one improvement.
C29_Witness ==
    /\ cmdPc = "returned"
    /\ Len(cmdCalls) = 1
    /\ Len(cmdSelected) = 1
    /\ cmdConfirm = "yes"
    /\ cmdOutputDir

\* The command has returned after the prompt was declined.
C29_WitnessDeclined ==
    /\ cmdPc = "returned"
    /\ cmdConfirm = "no"
    /\ cmdCalls = <<>>
    /\ ~cmdOutputDir

====
